---- MODULE Spec2Model ----
(***************************************************************************)
(* Study-Notion: the course hierarchy (Course -> Section -> Lecture ->     *)
(* Quiz -> Question -> Option), its ordering rules, the progress tracker   *)
(* and the quiz scoring, modelled from routes.py and models.py.            *)
(*                                                                         *)
(* The relational store is a set of rows per table.  Primary keys are      *)
(* allocated as SQLite does for INTEGER PRIMARY KEY (largest id + 1), the  *)
(* store config.py selects.  A NULL foreign key is the id 0.               *)
(***************************************************************************)
EXTENDS Integers, Sequences, FiniteSets, TLC

VARIABLES course, section, lecture, enrollment, lecture_progress,
          quiz, quiz_question, quiz_option, quiz_attempt, flashed,
          environment, MODEL_AVAILABLE, MODEL, list_calls, provider_calls,
          returned, inflight

vars == <<course, section, lecture, enrollment, lecture_progress,
          quiz, quiz_question, quiz_option, quiz_attempt, flashed,
          environment, MODEL_AVAILABLE, MODEL, list_calls, provider_calls,
          returned, inflight>>

hierarchy == <<course, section, lecture>>
tracker == <<enrollment, lecture_progress>>
quizzes == <<quiz, quiz_question, quiz_option, quiz_attempt>>
ai == <<environment, MODEL_AVAILABLE, MODEL, list_calls, provider_calls, returned>>

-----------------------------------------------------------------------------
(* Bounds of the model: the capacity of each table (largest id handed out) *)
(* and the sizes of the request inputs.                                    *)

MaxCourses == 2

MaxSections == 2

MaxLectures == 2

MaxProgressRows == 2

MaxQuizzes == 1

MaxQuestions == 2

MaxQuestionRows == 2

MaxOptions == 1

MaxAttempts == 1

MaxVideos == 2

MaxPosition == 1

CascadeRows == 3

(* Largest lecture count of the progress-formula specification. *)
MaxTotal == 50

-----------------------------------------------------------------------------
(* Users.  User 1 has role 'instructor', user 2 the default role           *)
(* 'student' (models.py: User.role).                                       *)

Users == {1, 2}

Instructors == {1}

NULL == 0

MinContent == 50

(* Lengths of Lecture.content that the model tells apart. *)
ContentLengths == {0, MinContent}

CourseIds == 1..MaxCourses
SectionIds == 1..MaxSections
LectureIds == 1..MaxLectures
QuizIds == 1..MaxQuizzes

-----------------------------------------------------------------------------
(* Helpers over sets of rows.                                              *)

Ids(tbl) == {r.id : r \in tbl}

MaxOf(S) == CHOOSE m \in S : \A x \in S : x <= m

NewId(tbl) == IF tbl = {} THEN 1 ELSE MaxOf(Ids(tbl)) + 1

Get(tbl, i) == CHOOSE r \in tbl : r.id = i

Exists(tbl, i) == \E r \in tbl : r.id = i

Range(s) == {s[i] : i \in 1..Len(s)}

SeqsUpTo(S, n) == UNION {[1..k -> S] : k \in 0..n}

-----------------------------------------------------------------------------
(* Python's float (IEEE-754 binary64, round to nearest, ties to even), as  *)
(* far as the two percentage formulas use it: the quotient of two          *)
(* non-negative integers, its product with 100, truncation by int() and    *)
(* comparison with an integer.  A positive float is its significand, most  *)
(* significant bit first, and the exponent of that bit; zero has no bits.  *)

Precision == 53

FloatZero == [sig |-> <<>>, exp |-> 0]

RECURSIVE Pow2(_)
Pow2(n) == IF n = 0 THEN 1 ELSE 2 * Pow2(n - 1)

(* the e with 2^e <= c/t < 2^(e+1), for c, t > 0 *)
RECURSIVE QuotientExponent(_, _)
QuotientExponent(c, t) ==
    IF c < t THEN QuotientExponent(2 * c, t) - 1
    ELSE IF c >= 2 * t THEN QuotientExponent(c, 2 * t) + 1
    ELSE 0

Byte == 256

FractionBytes == 7

(* n more base-256 digits of r/d (r < d), and the remainder left *)
RECURSIVE LongDivide(_, _, _, _)
LongDivide(r, d, n, acc) ==
    IF n = 0 THEN [digits |-> acc, rem |-> r]
    ELSE LongDivide((r * Byte) % d, d, n - 1, Append(acc, (r * Byte) \div d))

(* the bits of a sequence of base-256 digits, most significant first *)
BitsOf(digits) ==
    [i \in 1..(8 * Len(digits)) |->
        (digits[((i - 1) \div 8) + 1] \div Pow2(7 - ((i - 1) % 8))) % 2]

(* the base-256 digits of a sequence of bits *)
BytesOf(bits) ==
    LET pad == (8 - (Len(bits) % 8)) % 8
        bit(i) == IF i <= pad THEN 0 ELSE bits[i - pad]
    IN [k \in 1..((Len(bits) + pad) \div 8) |->
           128 * bit(8 * k - 7) + 64 * bit(8 * k - 6) + 32 * bit(8 * k - 5)
           + 16 * bit(8 * k - 4) + 8 * bit(8 * k - 3) + 4 * bit(8 * k - 2)
           + 2 * bit(8 * k - 1) + bit(8 * k)]

(* bits without their leading zeros (some bit is 1) *)
Normalized(bits) ==
    LET first == CHOOSE i \in 1..Len(bits) :
                     bits[i] = 1 /\ \A j \in 1..(i - 1) : bits[j] = 0
    IN SubSeq(bits, first, Len(bits))

IncrementBits(b) ==
    LET k == MaxOf({i \in 1..Len(b) : b[i] = 0})
    IN [i \in 1..Len(b) |-> IF i < k THEN b[i] ELSE IF i = k THEN 1 ELSE 0]

(* bits: at least Precision bits with a leading 1, of which the first has  *)
(* exponent e; more: whether non-zero bits follow those given.             *)
RoundToNearestEven(bits, e, more) ==
    LET head == SubSeq(bits, 1, Precision)
        guard == IF Len(bits) > Precision THEN bits[Precision + 1] ELSE 0
        rest == more \/ \E i \in (Precision + 2)..Len(bits) : bits[i] = 1
        up == guard = 1 /\ (rest \/ head[Precision] = 1)
    IN IF ~up THEN [sig |-> head, exp |-> e]
       ELSE IF \A i \in 1..Precision : head[i] = 1
       THEN [sig |-> [i \in 1..Precision |-> IF i = 1 THEN 1 ELSE 0], exp |-> e + 1]
       ELSE [sig |-> IncrementBits(head), exp |-> e]

(* c / t of two ints, t > 0, c >= 0 *)
FloatDiv(c, t) ==
    IF c = 0 THEN FloatZero
    ELSE LET e == QuotientExponent(c, t)
             num == IF e < 0 THEN c * Pow2(-e) ELSE c
             den == IF e > 0 THEN t * Pow2(e) ELSE t
             q == LongDivide(num - den, den, FractionBytes, <<>>)
         IN RoundToNearestEven(<<1>> \o BitsOf(q.digits), e, q.rem # 0)

(* the base-256 digits of (the integer of digits d) * k, for a small k > 0 *)
RECURSIVE MulBytes(_, _, _, _, _)
MulBytes(d, k, i, carry, acc) ==
    IF i = 0
    THEN IF carry = 0 THEN acc
         ELSE MulBytes(d, k, 0, carry \div Byte, <<carry % Byte>> \o acc)
    ELSE LET v == d[i] * k + carry
         IN MulBytes(d, k, i - 1, v \div Byte, <<v % Byte>> \o acc)

(* x * k for a float x and an int k whose float is exact (k < 2^53) *)
FloatMulInt(x, k) ==
    IF x = FloatZero THEN FloatZero
    ELSE LET d == BytesOf(x.sig)
             p == Normalized(BitsOf(MulBytes(d, k, Len(d), 0, <<>>)))
         IN RoundToNearestEven(p, x.exp + (Len(p) - Precision), FALSE)

RECURSIVE BitsToInt(_, _)
BitsToInt(b, n) == IF n = 0 THEN 0 ELSE 2 * BitsToInt(b, n - 1) + b[n]

(* int(x) for x >= 0 *)
FloatInt(x) ==
    IF x = FloatZero \/ x.exp < 0 THEN 0 ELSE BitsToInt(x.sig, x.exp + 1)

(* x >= n for a float x >= 0 and an int n >= 0 *)
FloatGeInt(x, n) == FloatInt(x) >= n

(* f'{x:.1f}' for x >= 0, as the number of tenths it shows: the exact     *)
(* value of x * 10 rounded to the nearest integer, ties to even.           *)
FormatTenths(x) ==
    IF x = FloatZero THEN 0
    ELSE LET d == BytesOf(x.sig)
             p == Normalized(BitsOf(MulBytes(d, 10, Len(d), 0, <<>>)))
             e == x.exp + (Len(p) - Precision)
             whole == IF e < 0 THEN 0 ELSE BitsToInt(p, e + 1)
             half == IF e >= -1 THEN p[e + 2] ELSE 0
             rest == \E i \in (IF e >= -2 THEN e + 3 ELSE 1)..Len(p) : p[i] = 1
         IN IF half = 1 /\ (rest \/ whole % 2 = 1) THEN whole + 1 ELSE whole

(* count / total * 100 as Python evaluates it, total > 0 *)
PercentageOf(count, total) == FloatMulInt(FloatDiv(count, total), 100)

(* The small cases, computed once. *)
MemoTotal == CascadeRows + MaxQuestions

PercentageTable ==
    [total \in 1..MemoTotal |-> [count \in 0..MemoTotal |-> PercentageOf(count, total)]]

Percentage(count, total) ==
    IF total <= MemoTotal /\ count <= MemoTotal
    THEN PercentageTable[total][count]
    ELSE PercentageOf(count, total)

-----------------------------------------------------------------------------
(* The web layer: the authenticated user and the handler's outcome.        *)

Role(u) == IF u \in Instructors THEN "instructor" ELSE "student"

(* A request that is denied, not found or invalid commits nothing and      *)
(* leaves the store as it is.  flashed is the percentage shown by the last *)
(* "Quiz submitted!" message, in tenths; no other message shows one, and   *)
(* the error message of a delete that raised is kept as DeleteFailed.      *)
NoPercentage == -1

IsEnrolled(u, c) == \E e \in enrollment : e.user_id = u /\ e.course_id = c

SectionsOf(c) == {s \in section : s.course_id = c}

LecturesOf(s) == {l \in lecture : l.section_id = s}

LecturesOfCourse(c) == {l \in lecture : l.section_id \in Ids(SectionsOf(c))}

CourseOfLecture(l) == Get(course, Get(section, Get(lecture, l).section_id).course_id)

(* query.order_by(X.order.desc()).first(), then last.order + 1, or 1 *)
(* A numbering by the count of the siblings instead of their largest order *)
CountPlusOne(rows) == Cardinality(rows) + 1

NextOrder(rows) == IF rows = {} THEN 1 ELSE MaxOf({r.order : r \in rows}) + 1

(* query.order_by(X.order).all() followed by enumerate(rows, 1): every     *)
(* numbering of the rows by 1..n that follows their order column; rows of  *)
(* equal order come out of the store in either order.                      *)
Rankings(rows) ==
    {f \in [Ids(rows) -> 1..Cardinality(rows)] :
        /\ \A a, b \in Ids(rows) : a # b => f[a] # f[b]
        /\ \A a, b \in rows : a.order < b.order => f[a.id] < f[b.id]}

Renumbered(rows, f) == {[r EXCEPT !.order = f[r.id]] : r \in rows}

(* The loop of reorder_sections / reorder_lectures: position idx of the    *)
(* list is written to the row when the row is in the scope; other ids are  *)
(* passed over.                                                            *)
RECURSIVE AssignOrder(_, _, _, _)
AssignOrder(tbl, scope, ids, idx) ==
    IF idx > Len(ids) THEN tbl
    ELSE LET i == ids[idx]
             t2 == IF i \in scope
                   THEN {IF r.id = i THEN [r EXCEPT !.order = idx] ELSE r : r \in tbl}
                   ELSE tbl
         IN AssignOrder(t2, scope, ids, idx + 1)

(* A cascade that leaves the options of the deleted questions behind *)
CascadeKeepingOptions(lids) ==
    LET qids == {q.id : q \in {q \in quiz : q.lecture_id \in lids}}
    IN /\ lecture_progress' = {p \in lecture_progress : p.lecture_id \notin lids}
       /\ quiz_option' = quiz_option
       /\ quiz_question' = {x \in quiz_question : x.quiz_id \notin qids}
       /\ quiz_attempt' = {a \in quiz_attempt : a.quiz_id \notin qids}
       /\ quiz' = {q \in quiz : q.lecture_id \notin lids}

(* The rows deleted under a set of lectures, bottom-up: progress, options, *)
(* questions, attempts, quizzes.                                           *)
CascadeLectures(lids) ==
    LET qids == {q.id : q \in {q \in quiz : q.lecture_id \in lids}}
        xids == {x.id : x \in {x \in quiz_question : x.quiz_id \in qids}}
    IN /\ lecture_progress' = {p \in lecture_progress : p.lecture_id \notin lids}
       /\ quiz_option' = {o \in quiz_option : o.question_id \notin xids}
       /\ quiz_question' = {x \in quiz_question : x.quiz_id \notin qids}
       /\ quiz_attempt' = {a \in quiz_attempt : a.quiz_id \notin qids}
       /\ quiz' = {q \in quiz : q.lecture_id \notin lids}

(* The tables as the session holds them once the rows under the lectures  *)
(* lids and those lectures are deleted, before any commit.                 *)
Pending(lids) ==
    LET qids == {q.id : q \in {q \in quiz : q.lecture_id \in lids}}
        xids == {x.id : x \in {x \in quiz_question : x.quiz_id \in qids}}
    IN [lecture_progress |-> {p \in lecture_progress : p.lecture_id \notin lids},
        quiz_option |-> {o \in quiz_option : o.question_id \notin xids},
        quiz_question |-> {x \in quiz_question : x.quiz_id \notin qids},
        quiz_attempt |-> {a \in quiz_attempt : a.quiz_id \notin qids},
        quiz |-> {q \in quiz : q.lecture_id \notin lids},
        lecture |-> {l \in lecture : l.id \notin lids}]

(* an except branch that leaves the work of the session in the store *)
KeepPending(committed, pending) == pending

(* db.session.rollback(): the table is as the last commit left it *)
Rollback(committed, pending) == committed

(* flashed after 'An error occurred while deleting ...' *)
DeleteFailed == -2

(* The except branch of the three deletes: the handler had deleted the    *)
(* rows under the lectures lids when a step raised.                        *)
RolledBack(lids) ==
    /\ lecture_progress' = Rollback(lecture_progress, Pending(lids).lecture_progress)
    /\ quiz_option' = Rollback(quiz_option, Pending(lids).quiz_option)
    /\ quiz_question' = Rollback(quiz_question, Pending(lids).quiz_question)
    /\ quiz_attempt' = Rollback(quiz_attempt, Pending(lids).quiz_attempt)
    /\ quiz' = Rollback(quiz, Pending(lids).quiz)
    /\ lecture' = Rollback(lecture, Pending(lids).lecture)
    /\ flashed' = DeleteFailed
    /\ UNCHANGED <<course, section, enrollment, ai, inflight>>

-----------------------------------------------------------------------------
(* Instructor handlers of the hierarchy.                                   *)

create_course(u) ==
    IF Role(u) # "instructor"
    THEN UNCHANGED vars
    ELSE LET i == NewId(course) IN
         /\ course' = course \cup {[id |-> i, creator_id |-> u, is_published |-> FALSE]}
         /\ UNCHANGED <<flashed, ai, inflight>>
         /\ UNCHANGED <<section, lecture, tracker, quizzes>>

publish_course(u, c) ==
    IF Role(u) # "instructor"
    THEN UNCHANGED vars
    ELSE IF ~Exists(course, c)
    THEN UNCHANGED vars
    ELSE IF Get(course, c).creator_id # u
    THEN UNCHANGED vars
    ELSE /\ course' = {IF r.id = c THEN [r EXCEPT !.is_published = ~r.is_published]
                       ELSE r : r \in course}
         /\ UNCHANGED <<flashed, ai, inflight>>
         /\ UNCHANGED <<section, lecture, tracker, quizzes>>

(* videos: the content length of each selected video's description *)
import_playlist(u, videos) ==
    IF Role(u) # "instructor"
    THEN UNCHANGED vars
    ELSE IF Len(videos) = 0
    THEN UNCHANGED vars
    ELSE LET c == NewId(course)
             s0 == NewId(section) - 1
             l0 == NewId(lecture) - 1
             n == Len(videos)
         IN /\ course' = course \cup
                   {[id |-> c, creator_id |-> u, is_published |-> FALSE]}
            /\ section' = section \cup
                   {[id |-> s0 + k, course_id |-> c, order |-> k] : k \in 1..n}
            /\ lecture' = lecture \cup
                   {[id |-> l0 + k, section_id |-> s0 + k, order |-> 1,
                     content |-> videos[k]] : k \in 1..n}
            /\ UNCHANGED <<flashed, ai, inflight>>
            /\ UNCHANGED <<tracker, quizzes>>

delete_course(u, c) ==
    IF Role(u) # "instructor"
    THEN UNCHANGED vars
    ELSE IF ~Exists(course, c)
    THEN UNCHANGED vars
    ELSE IF Get(course, c).creator_id # u
    THEN UNCHANGED vars
    ELSE /\ CascadeLectures(Ids(LecturesOfCourse(c)))
         /\ lecture' = lecture \ LecturesOfCourse(c)
         /\ section' = section \ SectionsOf(c)
         /\ enrollment' = {e \in enrollment : e.course_id # c}
         /\ course' = {r \in course : r.id # c}
         /\ UNCHANGED <<flashed, ai, inflight>>

(* delete_course when a step raises after the lectures lids were handled *)
delete_course_except(u, c, lids) ==
    IF Role(u) # "instructor"
    THEN UNCHANGED vars
    ELSE IF ~Exists(course, c)
    THEN UNCHANGED vars
    ELSE IF Get(course, c).creator_id # u
    THEN UNCHANGED vars
    ELSE RolledBack(lids \cap Ids(LecturesOfCourse(c)))

create_section(u, c) ==
    IF Role(u) # "instructor"
    THEN UNCHANGED vars
    ELSE IF ~Exists(course, c)
    THEN UNCHANGED vars
    ELSE IF Get(course, c).creator_id # u
    THEN UNCHANGED vars
    ELSE LET i == NewId(section) IN
         /\ section' = section \cup
                {[id |-> i, course_id |-> c, order |-> NextOrder(SectionsOf(c))]}
         /\ UNCHANGED <<flashed, ai, inflight>>
         /\ UNCHANGED <<course, lecture, tracker, quizzes>>

create_lecture(u, s, len) ==
    IF Role(u) # "instructor"
    THEN UNCHANGED vars
    ELSE IF ~Exists(section, s)
    THEN UNCHANGED vars
    ELSE IF Get(course, Get(section, s).course_id).creator_id # u
    THEN UNCHANGED vars
    ELSE LET i == NewId(lecture) IN
         /\ lecture' = lecture \cup
                {[id |-> i, section_id |-> s, order |-> NextOrder(LecturesOf(s)),
                  content |-> len]}
         /\ UNCHANGED <<flashed, ai, inflight>>
         /\ UNCHANGED <<course, section, tracker, quizzes>>

delete_section(u, s) ==
    IF Role(u) # "instructor"
    THEN UNCHANGED vars
    ELSE IF ~Exists(section, s)
    THEN UNCHANGED vars
    ELSE IF Get(course, Get(section, s).course_id).creator_id # u
    THEN UNCHANGED vars
    ELSE LET c == Get(section, s).course_id
             remaining == {r \in SectionsOf(c) : r.id # s}
         IN \E f \in Rankings(remaining) :
            /\ CascadeLectures(Ids(LecturesOf(s)))
            /\ lecture' = lecture \ LecturesOf(s)
            /\ section' = (section \ SectionsOf(c)) \cup Renumbered(remaining, f)
            /\ UNCHANGED <<flashed, ai, inflight>>
            /\ UNCHANGED <<course, enrollment>>

delete_lecture(u, l) ==
    IF Role(u) # "instructor"
    THEN UNCHANGED vars
    ELSE IF ~Exists(lecture, l)
    THEN UNCHANGED vars
    ELSE IF CourseOfLecture(l).creator_id # u
    THEN UNCHANGED vars
    ELSE LET s == Get(lecture, l).section_id
             remaining == {r \in LecturesOf(s) : r.id # l}
         IN \E f \in Rankings(remaining) :
            /\ CascadeLectures({l})
            /\ lecture' = (lecture \ LecturesOf(s)) \cup Renumbered(remaining, f)
            /\ UNCHANGED <<flashed, ai, inflight>>
            /\ UNCHANGED <<course, section, enrollment>>

(* delete_section when a step raises after the lectures lids were handled *)
delete_section_except(u, s, lids) ==
    IF Role(u) # "instructor"
    THEN UNCHANGED vars
    ELSE IF ~Exists(section, s)
    THEN UNCHANGED vars
    ELSE IF Get(course, Get(section, s).course_id).creator_id # u
    THEN UNCHANGED vars
    ELSE RolledBack(lids \cap Ids(LecturesOf(s)))

(* delete_lecture when a step raises, before (lids empty) or after the    *)
(* rows under the lecture were deleted                                     *)
delete_lecture_except(u, l, lids) ==
    IF Role(u) # "instructor"
    THEN UNCHANGED vars
    ELSE IF ~Exists(lecture, l)
    THEN UNCHANGED vars
    ELSE IF CourseOfLecture(l).creator_id # u
    THEN UNCHANGED vars
    ELSE RolledBack(lids \cap {l})

(* c: the courseId of the JSON body (0 when missing), ids: its sectionOrder *)
reorder_sections(u, c, ids) ==
    IF Role(u) # "instructor"
    THEN UNCHANGED vars
    ELSE IF c = NULL \/ Len(ids) = 0
    THEN UNCHANGED vars
    ELSE IF ~Exists(course, c)
    THEN UNCHANGED vars
    ELSE IF Get(course, c).creator_id # u
    THEN UNCHANGED vars
    ELSE /\ section' = AssignOrder(section, Ids(SectionsOf(c)), ids, 1)
         /\ UNCHANGED <<flashed, ai, inflight>>
         /\ UNCHANGED <<course, lecture, tracker, quizzes>>

(* s: the sectionId of the JSON body (0 when missing), ids: its lectureOrder *)
reorder_lectures(u, s, ids) ==
    IF Role(u) # "instructor"
    THEN UNCHANGED vars
    ELSE IF s = NULL \/ Len(ids) = 0
    THEN UNCHANGED vars
    ELSE IF ~Exists(section, s)
    THEN UNCHANGED vars
    ELSE IF Get(course, Get(section, s).course_id).creator_id # u
    THEN UNCHANGED vars
    ELSE /\ lecture' = AssignOrder(lecture, Ids(LecturesOf(s)), ids, 1)
         /\ UNCHANGED <<flashed, ai, inflight>>
         /\ UNCHANGED <<course, section, tracker, quizzes>>

-----------------------------------------------------------------------------
(* Course.get_progress (models.py): the completed LectureProgress rows of  *)
(* the user under the course over the lectures of the course.              *)

get_progress(c, u) ==
    IF ~IsEnrolled(u, c) THEN 0
    ELSE LET total_lectures == Cardinality(LecturesOfCourse(c))
         IN IF total_lectures = 0 THEN 0
            ELSE LET completed_lectures ==
                         Cardinality({p \in lecture_progress :
                                         /\ p.lecture_id \in Ids(LecturesOfCourse(c))
                                         /\ p.user_id = u
                                         /\ p.completed})
                 IN FloatInt(Percentage(completed_lectures, total_lectures))

-----------------------------------------------------------------------------
(* Handlers of the enrolled user: enrollment and lecture progress.         *)

enroll_course(u, c) ==
    IF ~Exists(course, c) THEN UNCHANGED vars
    ELSE IF ~Get(course, c).is_published THEN UNCHANGED vars
    ELSE IF IsEnrolled(u, c) THEN UNCHANGED vars
    ELSE /\ enrollment' = enrollment \cup {[user_id |-> u, course_id |-> c]}
         /\ UNCHANGED <<flashed, ai, inflight>>
         /\ UNCHANGED <<hierarchy, lecture_progress, quizzes>>

(* A lookup that never finds the row of the user *)
NoProgressRows(u, l) == {}

ProgressRows(u, l) == {p \in lecture_progress : p.user_id = u /\ p.lecture_id = l}

(* LectureProgress(user_id=..., lecture_id=...) with the column defaults *)
NewProgress(u, l) ==
    [id |-> NewId(lecture_progress), user_id |-> u, lecture_id |-> l,
     current_position |-> 0, completed |-> FALSE]

video_player(u, l) ==
    IF ~Exists(lecture, l) THEN UNCHANGED vars
    ELSE IF ~(IsEnrolled(u, CourseOfLecture(l).id) \/ u = CourseOfLecture(l).creator_id)
    THEN UNCHANGED vars
    ELSE /\ lecture_progress' =
                IF ProgressRows(u, l) # {} THEN lecture_progress
                ELSE lecture_progress \cup {NewProgress(u, l)}
         /\ UNCHANGED <<flashed, ai, inflight>>
         /\ UNCHANGED <<hierarchy, enrollment, quizzes>>

(* video_player up to its query for the progress row: the request holds  *)
(* the row it found, or none, until it commits.                            *)
video_player_query(u, l) ==
    IF ~Exists(lecture, l) THEN UNCHANGED vars
    ELSE IF ~(IsEnrolled(u, CourseOfLecture(l).id) \/ u = CourseOfLecture(l).creator_id)
    THEN UNCHANGED vars
    ELSE /\ inflight' = inflight \cup
                {[handler |-> "video_player", user_id |-> u, lecture_id |-> l,
                  found |-> ProgressRows(u, l) # {}]}
         /\ UNCHANGED <<hierarchy, tracker, quizzes, flashed, ai>>

(* video_player from db.session.add(progress) to db.session.commit() *)
video_player_commit(request) ==
    /\ request \in inflight
    /\ request.handler = "video_player"
    /\ inflight' = inflight \ {request}
    /\ lecture_progress' =
           IF request.found THEN lecture_progress
           ELSE lecture_progress \cup {NewProgress(request.user_id, request.lecture_id)}
    /\ UNCHANGED <<hierarchy, enrollment, quizzes, flashed, ai>>

(* request.form.get('completed', type=bool): bool() of the field's text *)
CompletedFields == {"absent", "", "true", "false"}

PyBool(text) == text # ""

(* request.form.get('current_position', type=int): None when the field is *)
(* missing or is no int.                                                   *)
NoPosition == -1

PositionFields == {NoPosition} \cup 0..MaxPosition

(* l: the lecture_id field (0 when missing or 0); position: the            *)
(* current_position field; field: the text of the completed field.         *)
update_progress(u, l, position, field) ==
    IF l = NULL THEN UNCHANGED vars
    ELSE IF ~Exists(lecture, l) THEN UNCHANGED vars
    ELSE \E p \in (IF ProgressRows(u, l) # {} THEN ProgressRows(u, l)
                   ELSE {NewProgress(u, l)}) :
         /\ lecture_progress' = (lecture_progress \ {p}) \cup
                {[p EXCEPT !.current_position = position,
                           !.completed = IF field = "absent" THEN @ ELSE PyBool(field)]}
         /\ UNCHANGED <<flashed, ai, inflight>>
         /\ UNCHANGED <<hierarchy, enrollment, quizzes>>

(* update_progress up to its query for the progress row *)
update_progress_query(u, l, position, field) ==
    IF l = NULL THEN UNCHANGED vars
    ELSE IF ~Exists(lecture, l) THEN UNCHANGED vars
    ELSE \E p \in (IF ProgressRows(u, l) # {} THEN ProgressRows(u, l)
                   ELSE {NewProgress(u, l)}) :
         /\ inflight' = inflight \cup
                {[handler |-> "update_progress", user_id |-> u, lecture_id |-> l,
                  found |-> ProgressRows(u, l) # {},
                  progress |-> [p EXCEPT !.current_position = position,
                                         !.completed = IF field = "absent" THEN @
                                                       ELSE PyBool(field)]]}
         /\ UNCHANGED <<hierarchy, tracker, quizzes, flashed, ai>>

(* update_progress at db.session.commit(): the row it holds is updated by *)
(* its id, or inserted when the query had found none                      *)
update_progress_commit(request) ==
    /\ request \in inflight
    /\ request.handler = "update_progress"
    /\ inflight' = inflight \ {request}
    /\ lecture_progress' =
           IF request.found
           THEN {IF p.id = request.progress.id THEN request.progress ELSE p
                 : p \in lecture_progress}
           ELSE lecture_progress \cup
                    {[request.progress EXCEPT !.id = NewId(lecture_progress)]}
    /\ UNCHANGED <<hierarchy, enrollment, quizzes, flashed, ai>>

-----------------------------------------------------------------------------
(* Quizzes.  A quiz draft, as generate_quiz_from_content returns it, is a  *)
(* sequence of questions, each the sequence of the is_correct flags of its *)
(* options (the texts are left out).                                       *)

NoQuiz == [id |-> NULL, lecture_id |-> NULL]

(* a lookup that finds no quiz *)
NoQuizOfLecture(l) == {}

(* Quiz.query.filter_by(lecture_id=lecture.id) *)
QuizOfLecture(l) == {q \in quiz : q.lecture_id = l}

QuestionsOf(q) == {x \in quiz_question : x.quiz_id = q}

RECURSIVE OptionsBefore(_, _)
OptionsBefore(draft, k) ==
    IF k = 1 THEN 0 ELSE OptionsBefore(draft, k - 1) + Len(draft[k - 1])

(* db.session.delete(quiz): the quiz row goes; its questions and attempts  *)
(* have no delete cascade, so the unit of work sets their quiz_id to NULL. *)
WithoutQuiz(tbl, q) == {IF r.quiz_id = q THEN [r EXCEPT !.quiz_id = NULL] ELSE r : r \in tbl}

(* POST of a valid QuizGeneratorForm; a GET only renders the page.         *)
generate_quiz_page(u, l, generate_new, draft) ==
    IF ~Exists(lecture, l) THEN UNCHANGED vars
    ELSE IF ~(IsEnrolled(u, CourseOfLecture(l).id) \/ u = CourseOfLecture(l).creator_id)
    THEN UNCHANGED vars
    ELSE \E old \in (IF QuizOfLecture(l) = {} THEN {NoQuiz} ELSE QuizOfLecture(l)) :
         LET deleting == old # NoQuiz /\ generate_new
             quiz1 == IF deleting THEN quiz \ {old} ELSE quiz
             question1 == IF deleting THEN WithoutQuiz(quiz_question, old.id)
                          ELSE quiz_question
             attempt1 == IF deleting THEN WithoutQuiz(quiz_attempt, old.id)
                         ELSE quiz_attempt
             qid == NewId(quiz1)
             x0 == NewId(question1) - 1
             o0 == NewId(quiz_option) - 1
         IN IF old # NoQuiz /\ ~generate_new THEN UNCHANGED vars
            ELSE IF Get(lecture, l).content < MinContent
            THEN IF deleting
                 THEN /\ quiz' = quiz1
                      /\ quiz_question' = question1
                      /\ quiz_attempt' = attempt1
                      /\ UNCHANGED <<flashed, ai, inflight>>
                      /\ UNCHANGED <<hierarchy, tracker, quiz_option>>
                 ELSE UNCHANGED vars
            ELSE /\ quiz' = quiz1 \cup {[id |-> qid, lecture_id |-> l]}
                 /\ quiz_question' = question1 \cup
                        {[id |-> x0 + k, quiz_id |-> qid] : k \in 1..Len(draft)}
                 /\ quiz_option' = quiz_option \cup
                        UNION {{[id |-> o0 + OptionsBefore(draft, k) + i,
                                 question_id |-> x0 + k,
                                 is_correct |-> draft[k][i]] : i \in 1..Len(draft[k])}
                               : k \in 1..Len(draft)}
                 /\ quiz_attempt' = attempt1
                 /\ UNCHANGED <<flashed, ai, inflight>>
                 /\ UNCHANGED <<hierarchy, tracker>>

PassMark == 70

(* A scoring that counts every question with a posted field *)
Answered(questions, answers) == {x \in questions : answers[x.id] # NULL}

(* The questions the scoring loop counts: a field question_<id> is posted, *)
(* the option of that id exists and is correct.                            *)
CorrectlyAnswered(questions, answers) ==
    {x \in questions :
        /\ answers[x.id] # NULL
        /\ \E o \in quiz_option : o.id = answers[x.id] /\ o.is_correct}

(* answers[x]: the option id posted in the field question_<x>, 0 when the  *)
(* field is missing or empty.                                              *)
submit_quiz(u, q, answers) ==
    IF ~Exists(quiz, q) THEN UNCHANGED vars
    ELSE IF ~IsEnrolled(u, CourseOfLecture(Get(quiz, q).lecture_id).id) THEN UNCHANGED vars
    ELSE LET l == Get(quiz, q).lecture_id
             questions == QuestionsOf(q)
             score == Cardinality(CorrectlyAnswered(questions, answers))
             total_questions == Cardinality(questions)
             percentage == IF total_questions > 0
                           THEN Percentage(score, total_questions)
                           ELSE FloatZero
             passed == FloatGeInt(percentage, PassMark)
         IN /\ quiz_attempt' = quiz_attempt \cup
                   {[id |-> NewId(quiz_attempt), user_id |-> u, quiz_id |-> q,
                     score |-> score, total_questions |-> total_questions]}
            /\ IF passed /\ ProgressRows(u, l) # {}
               THEN \E p \in ProgressRows(u, l) :
                        lecture_progress' = (lecture_progress \ {p}) \cup
                                                {[p EXCEPT !.completed = TRUE]}
               ELSE UNCHANGED lecture_progress
            /\ flashed' = FormatTenths(percentage)
            /\ UNCHANGED <<ai, inflight>>
            /\ UNCHANGED <<hierarchy, enrollment, quiz, quiz_question, quiz_option>>

-----------------------------------------------------------------------------
(* ai_services.py.  A text is the sequence of its pieces; a model name is  *)
(* cut at the texts the module looks for in it ("gemini", "1.0").          *)

(* s holds the text pat *)
Contains(s, pat) ==
    \E i \in 1..(Len(s) - Len(pat) + 1) : SubSeq(s, i, i + Len(pat) - 1) = pat

Flash15 == <<"models/", "gemini", "-", "1.5", "-", "flash">>

Pro15 == <<"models/", "gemini", "-", "1.5", "-", "pro">>

Pro10 == <<"models/", "gemini", "-", "1.0", "-", "pro">>

Flash20 == <<"models/", "gemini", "-", "2.0", "-", "flash">>

Embedding == <<"models/", "embedding", "-", "001">>

NoModel == <<>>

(* What genai.list_models() gives at import. *)
NameLists ==
    {<<>>, <<Flash15>>, <<Pro10, Pro15>>, <<Pro10>>, <<Embedding, Pro10>>,
     <<Embedding, Flash20, Pro15>>, <<Pro10, Flash20>>}

Listings ==
    {[raises |-> TRUE, names |-> <<>>]} \cup
    {[raises |-> FALSE, names |-> n] : n \in NameLists}

(* os.environ.get('GEMINI_API_KEY'): "None" when the variable is not set *)
ApiKeys == {"None", "", "your_new_api_key_here", "AIza"}

(* genai: whether google.generativeai was imported; configure_raises:      *)
(* whether genai.configure raises.                                         *)
Configured ==
    [genai |-> TRUE, api_key |-> "AIza", configure_raises |-> FALSE,
     listing |-> [raises |-> FALSE, names |-> <<Flash15>>]]

(* Each way the import can find its environment: the library missing, the  *)
(* key missing, empty or the placeholder, configure or the listing         *)
(* failing, and each list of names.                                        *)
Environments ==
    {[Configured EXCEPT !.genai = FALSE]} \cup
    {[Configured EXCEPT !.api_key = k] : k \in ApiKeys} \cup
    {[Configured EXCEPT !.configure_raises = TRUE]} \cup
    {[Configured EXCEPT !.listing = l] : l \in Listings}

Credential(env) ==
    env.genai /\ env.api_key # "None" /\ env.api_key # ""
        /\ env.api_key # "your_new_api_key_here"

Usable(name) == Contains(name, <<"gemini">>) /\ ~Contains(name, <<"1.0">>)

(* an import that takes the first name listed, whatever it is *)
ConfigureFirstListed(env) ==
    IF ~Credential(env) \/ env.configure_raises
    THEN [available |-> FALSE, model |-> NoModel, listed |-> 0]
    ELSE IF env.listing.raises \/ env.listing.names = <<>>
    THEN [available |-> FALSE, model |-> NoModel, listed |-> 1]
    ELSE [available |-> TRUE, model |-> env.listing.names[1], listed |-> 1]

(* The model the import chooses from the names listed, NoModel when none  *)
(* is suitable.                                                            *)
ChooseModel(names) ==
    IF \E i \in 1..Len(names) : names[i] = Flash15 THEN Flash15
    ELSE IF \E i \in 1..Len(names) : names[i] = Pro15 THEN Pro15
    ELSE IF \E i \in 1..Len(names) : Usable(names[i])
    THEN names[CHOOSE i \in 1..Len(names) :
                   Usable(names[i]) /\ \A j \in 1..(i - 1) : ~Usable(names[j])]
    ELSE NoModel

(* The module-level configuration, run once at import. *)
Configure(env) ==
    IF ~Credential(env) THEN [available |-> FALSE, model |-> NoModel, listed |-> 0]
    ELSE IF env.configure_raises
    THEN [available |-> FALSE, model |-> NoModel, listed |-> 0]
    ELSE IF env.listing.raises
    THEN [available |-> FALSE, model |-> NoModel, listed |-> 1]
    ELSE [available |-> ChooseModel(env.listing.names) # NoModel,
          model |-> ChooseModel(env.listing.names), listed |-> 1]

NoCall == [op |-> "none"]

(* The module imported in the environment env, before any request. *)
Imported(env) ==
    /\ environment = env
    /\ MODEL_AVAILABLE = Configure(env).available
    /\ MODEL = Configure(env).model
    /\ list_calls = Configure(env).listed
    /\ provider_calls = 0
    /\ returned = NoCall

(* No client library and no key: the generator is unavailable. *)
NoProvider ==
    Imported([genai |-> FALSE, api_key |-> "None", configure_raises |-> FALSE,
              listing |-> [raises |-> TRUE, names |-> <<>>]])

-----------------------------------------------------------------------------
(* Texts.  A content is the sequence of its characters.                    *)

(* pat stands in s at position i *)
At(s, i, pat) == i + Len(pat) - 1 <= Len(s) /\ SubSeq(s, i, i + Len(pat) - 1) = pat

Find(s, pat) ==
    CHOOSE i \in 1..Len(s) : At(s, i, pat) /\ \A j \in 1..(i - 1) : ~At(s, j, pat)

(* str.split(sep): the pieces between the occurrences of sep, left to right *)
RECURSIVE Split(_, _)
Split(s, sep) ==
    IF ~Contains(s, sep) THEN <<s>>
    ELSE <<SubSeq(s, 1, Find(s, sep) - 1)>>
             \o Split(SubSeq(s, Find(s, sep) + Len(sep), Len(s)), sep)

(* sep.join(pieces) *)
RECURSIVE Join(_, _)
Join(pieces, sep) ==
    IF pieces = <<>> THEN <<>>
    ELSE IF Len(pieces) = 1 THEN pieces[1]
    ELSE pieces[1] \o sep \o Join(Tail(pieces), sep)

(* str.replace(old, new) *)
Replace(s, old, new) == Join(Split(s, old), new)

(* s[:n] *)
Slice(s, n) == SubSeq(s, 1, IF Len(s) < n THEN Len(s) ELSE n)

Whitespace == {" ", "\n", "\t"}

(* str.strip() *)
Strip(s) ==
    LET keep == {i \in 1..Len(s) : s[i] \notin Whitespace}
    IN  IF keep = {} THEN <<>>
        ELSE SubSeq(s, CHOOSE i \in keep : \A j \in keep : i <= j,
                       CHOOSE i \in keep : \A j \in keep : j <= i)

UpperCase ==
    <<"A", "B", "C", "D", "E", "F", "G", "H", "I", "J", "K", "L", "M",
      "N", "O", "P", "Q", "R", "S", "T", "U", "V", "W", "X", "Y", "Z">>

LowerCase ==
    <<"a", "b", "c", "d", "e", "f", "g", "h", "i", "j", "k", "l", "m",
      "n", "o", "p", "q", "r", "s", "t", "u", "v", "w", "x", "y", "z">>

(* str.lower() *)
Lower(s) ==
    [i \in 1..Len(s) |->
        IF \E k \in 1..Len(UpperCase) : UpperCase[k] = s[i]
        THEN LowerCase[CHOOSE k \in 1..Len(UpperCase) : UpperCase[k] = s[i]]
        ELSE s[i]]

-----------------------------------------------------------------------------
(* The fallback generators.                                                *)

keywords ==
    <<<<"p", "y", "t", "h", "o", "n">>,
      <<"j", "a", "v", "a", "s", "c", "r", "i", "p", "t">>,
      <<"p", "r", "o", "g", "r", "a", "m", "m", "i", "n", "g">>,
      <<"d", "a", "t", "a", "b", "a", "s", "e">>,
      <<"w", "e", "b">>,
      <<"h", "t", "m", "l">>,
      <<"c", "s", "s">>,
      <<"f", "u", "n", "c", "t", "i", "o", "n">>,
      <<"c", "l", "a", "s", "s">>,
      <<"a", "l", "g", "o", "r", "i", "t", "h", "m">>,
      <<"r", "e", "a", "c", "t">>,
      <<"f", "l", "a", "s", "k">>>>

(* the keywords of the list that stand in the lowercased content *)
found_keywords(content) ==
    LET lowered == Lower(content)
    IN  {keywords[k] : k \in {i \in 1..Len(keywords) : Contains(lowered, keywords[i])}}

PythonQuiz ==
    [questions |-> <<
        [question |-> "What is Python's primary programming paradigm?",
         options |-> <<
            [text |-> "Object-oriented programming", is_correct |-> TRUE],
            [text |-> "Procedural programming only", is_correct |-> FALSE],
            [text |-> "Functional programming only", is_correct |-> FALSE],
            [text |-> "Assembly programming", is_correct |-> FALSE]>>],
        [question |-> "Which of the following is a correct way to create a list in Python?",
         options |-> <<
            [text |-> "my_list = [1, 2, 3]", is_correct |-> TRUE],
            [text |-> "my_list = (1, 2, 3)", is_correct |-> FALSE],
            [text |-> "my_list = {1, 2, 3}", is_correct |-> FALSE],
            [text |-> "my_list = 1, 2, 3", is_correct |-> FALSE]>>],
        [question |-> "What does the 'self' parameter in Python class methods represent?",
         options |-> <<
            [text |-> "The instance of the class", is_correct |-> TRUE],
            [text |-> "The class itself", is_correct |-> FALSE],
            [text |-> "The parent class", is_correct |-> FALSE],
            [text |-> "A required keyword", is_correct |-> FALSE]>>]>>]

WebQuiz ==
    [questions |-> <<
        [question |-> "Which of the following is used to declare a variable in modern JavaScript?",
         options |-> <<
            [text |-> "let and const", is_correct |-> TRUE],
            [text |-> "dim", is_correct |-> FALSE],
            [text |-> "define", is_correct |-> FALSE],
            [text |-> "int and string", is_correct |-> FALSE]>>],
        [question |-> "What does the DOM stand for in web development?",
         options |-> <<
            [text |-> "Document Object Model", is_correct |-> TRUE],
            [text |-> "Data Object Model", is_correct |-> FALSE],
            [text |-> "Document Oriented Markup", is_correct |-> FALSE],
            [text |-> "Display Object Management", is_correct |-> FALSE]>>]>>]

GenericQuiz ==
    [questions |-> <<
        [question |-> "What is a function in programming?",
         options |-> <<
            [text |-> "A reusable block of code that performs a specific task", is_correct |-> TRUE],
            [text |-> "A type of variable", is_correct |-> FALSE],
            [text |-> "A database query", is_correct |-> FALSE],
            [text |-> "A hardware component", is_correct |-> FALSE]>>],
        [question |-> "Which data structure follows the LIFO (Last In, First Out) principle?",
         options |-> <<
            [text |-> "Stack", is_correct |-> TRUE],
            [text |-> "Queue", is_correct |-> FALSE],
            [text |-> "Tree", is_correct |-> FALSE],
            [text |-> "Graph", is_correct |-> FALSE]>>],
        [question |-> "What does API stand for?",
         options |-> <<
            [text |-> "Application Programming Interface", is_correct |-> TRUE],
            [text |-> "Automated Programming Interface", is_correct |-> FALSE],
            [text |-> "Application Process Integration", is_correct |-> FALSE],
            [text |-> "Algorithmic Programming Interface", is_correct |-> FALSE]>>]>>]

(* the pre-authored set cut to the count asked for *)
FallbackQuizOfCount(content, num_questions) ==
    LET found == found_keywords(content)
        set == IF <<"p", "y", "t", "h", "o", "n">> \in found THEN PythonQuiz
               ELSE IF <<"j", "a", "v", "a", "s", "c", "r", "i", "p", "t">> \in found
                       \/ <<"w", "e", "b">> \in found THEN WebQuiz
               ELSE GenericQuiz
    IN  [questions |-> Slice(set.questions, num_questions)]

(* the choice made with the web set tried first *)
FallbackQuizWebFirst(content, num_questions) ==
    LET found == found_keywords(content)
    IN  IF <<"j", "a", "v", "a", "s", "c", "r", "i", "p", "t">> \in found
           \/ <<"w", "e", "b">> \in found THEN WebQuiz
        ELSE IF <<"p", "y", "t", "h", "o", "n">> \in found THEN PythonQuiz
        ELSE GenericQuiz

generate_fallback_quiz(content, num_questions) ==
    LET found == found_keywords(content)
    IN  IF <<"p", "y", "t", "h", "o", "n">> \in found THEN PythonQuiz
        ELSE IF <<"j", "a", "v", "a", "s", "c", "r", "i", "p", "t">> \in found
                \/ <<"w", "e", "b">> \in found THEN WebQuiz
        ELSE GenericQuiz

ExtractLimit == 200

SentenceLimit == 3

Ellipsis == <<".", ".", ".">>

SummaryHead ==
    "\n    # Content Summary \n    \n    This is a basic summary extracted from the lecture content:\n    \n    "

SummaryNote ==
    "\n    \n    Note: For more comprehensive AI-generated summaries, please ensure the Gemini API key is correctly configured.\n    "

(* the markup the summary rewrites, in the order of the replace calls *)
Markup ==
    <<[old |-> <<"<", "p", ">">>, new |-> <<>>],
      [old |-> <<"<", "/", "p", ">">>, new |-> <<"\n", "\n">>],
      [old |-> <<"<", "h", "1", ">">>, new |-> <<"#", " ">>],
      [old |-> <<"<", "/", "h", "1", ">">>, new |-> <<"\n", "\n">>],
      [old |-> <<"<", "h", "2", ">">>, new |-> <<"#", "#", " ">>],
      [old |-> <<"<", "/", "h", "2", ">">>, new |-> <<"\n", "\n">>],
      [old |-> <<"<", "h", "3", ">">>, new |-> <<"#", "#", "#", " ">>],
      [old |-> <<"<", "/", "h", "3", ">">>, new |-> <<"\n", "\n">>],
      [old |-> <<"<", "u", "l", ">">>, new |-> <<>>],
      [old |-> <<"<", "/", "u", "l", ">">>, new |-> <<>>],
      [old |-> <<"<", "l", "i", ">">>, new |-> <<"-", " ">>],
      [old |-> <<"<", "/", "l", "i", ">">>, new |-> <<"\n">>]>>

(* the first k replacements of Markup applied to s in turn *)
RECURSIVE Rewrite(_, _)
Rewrite(s, k) ==
    IF k = 0 THEN s
    ELSE Replace(Rewrite(s, k - 1), Markup[k].old, Markup[k].new)

(* the extract before the markup is rewritten *)
Intro(content) ==
    IF Len(Split(content, <<".">>)) > SentenceLimit
    THEN Join(SubSeq(Split(content, <<".">>), 1, SentenceLimit), <<".", " ">>) \o <<".">>
    ELSE IF Len(content) > ExtractLimit
    THEN Slice(content, ExtractLimit) \o Ellipsis
    ELSE content

generate_fallback_summary(content) ==
    [text |-> <<SummaryHead>> \o Rewrite(Intro(content), Len(Markup)) \o <<SummaryNote>>]

StudyNotes ==
    "\n# Study Notes\n\n## Overview\nThis is a basic overview of the content.\n\n## Key Points\n* Important point 1\n* Important point 2\n* Important point 3\n\n## Summary\nThese are the most important concepts to remember from this content.\n"

(* notes that carry the number of provider calls made so far *)
NotesCounted(content) == [text |-> <<StudyNotes, ToString(provider_calls)>>]

generate_fallback_study_notes(content) == [text |-> <<StudyNotes>>]

LessonsPerModule == 3

Lessons(i) ==
    [j \in 1..LessonsPerModule |->
        [title |-> "Lesson " \o ToString(j),
         content |-> "Content outline for lesson " \o ToString(j)
                         \o " of module " \o ToString(i) \o ".",
         order |-> j]]

(* the outline one module short *)
CourseContentShort(title, description, num_modules) ==
    [modules |->
        [i \in 1..(num_modules - 1) |->
            [title |-> "Module " \o ToString(i),
             description |-> "This is module " \o ToString(i) \o " of the "
                                 \o title \o " course.",
             order |-> i,
             lessons |-> Lessons(i)]]]

generate_fallback_course_content(title, description, num_modules) ==
    [modules |->
        [i \in 1..num_modules |->
            [title |-> "Module " \o ToString(i),
             description |-> "This is module " \o ToString(i) \o " of the "
                                 \o title \o " course.",
             order |-> i,
             lessons |-> Lessons(i)]]]

-----------------------------------------------------------------------------
(* The provider.  A response text is the sequence of its pieces: a code    *)
(* fence is the piece TripleBacktick, followed by the piece "json" when the fence   *)
(* is labelled; a JSON document is one piece.                              *)

(* the three backticks that open or close a code block *)
TripleBacktick == "(three backticks)"

Fence == <<TripleBacktick>>

FenceJson == <<TripleBacktick, "json">>

OneQuestion == "{\"questions\": [{\"question\": \"What is a loop?\", \"options\": [{\"text\": \"Option A\", \"is_correct\": false}, {\"text\": \"Option B\", \"is_correct\": true}, {\"text\": \"Option C\", \"is_correct\": false}, {\"text\": \"Option D\", \"is_correct\": false}]}]}"

TwoQuestions == "{\"questions\": [{\"question\": \"What is a loop?\", \"options\": [{\"text\": \"Option A\", \"is_correct\": false}, {\"text\": \"Option B\", \"is_correct\": true}, {\"text\": \"Option C\", \"is_correct\": false}, {\"text\": \"Option D\", \"is_correct\": false}]}, {\"question\": \"What is a list?\", \"options\": [{\"text\": \"Option A\", \"is_correct\": false}, {\"text\": \"Option B\", \"is_correct\": false}, {\"text\": \"Option C\", \"is_correct\": false}, {\"text\": \"Option D\", \"is_correct\": true}]}]}"

TwoOptions == "{\"questions\": [{\"question\": \"What is a loop?\", \"options\": [{\"text\": \"Option A\", \"is_correct\": true}, {\"text\": \"Option B\", \"is_correct\": true}]}]}"

NoQuestions == "{\"questions\": []}"

OneModule == "{\"modules\": [{\"title\": \"Basics\", \"description\": \"First steps\", \"order\": 1, \"lessons\": [{\"title\": \"Start\", \"content\": \"Outline\", \"order\": 1}]}]}"

(* a document whose last option has no is_correct *)
FlagMissing == "{\"questions\": [{\"question\": \"What is a loop?\", \"options\": [{\"text\": \"Option A\", \"is_correct\": true}]}, {\"question\": \"What is a list?\", \"options\": [{\"text\": \"Option A\", \"is_correct\": false}, {\"text\": \"Option B\"}]}]}"

ErrorDocument == "{\"error\": \"The content is too short\"}"

(* json.loads of each document *)
Documents ==
    (FlagMissing :> [questions |-> <<[question |-> "What is a loop?", options |-> <<[text |-> "Option A", is_correct |-> TRUE]>>], [question |-> "What is a list?", options |-> <<[text |-> "Option A", is_correct |-> FALSE], [text |-> "Option B"]>>]>>]) @@
    (ErrorDocument :> [error |-> "The content is too short"]) @@
    (OneQuestion :> [questions |-> <<[question |-> "What is a loop?", options |-> <<[text |-> "Option A", is_correct |-> FALSE], [text |-> "Option B", is_correct |-> TRUE], [text |-> "Option C", is_correct |-> FALSE], [text |-> "Option D", is_correct |-> FALSE]>>]>>]) @@
    (TwoQuestions :> [questions |-> <<[question |-> "What is a loop?", options |-> <<[text |-> "Option A", is_correct |-> FALSE], [text |-> "Option B", is_correct |-> TRUE], [text |-> "Option C", is_correct |-> FALSE], [text |-> "Option D", is_correct |-> FALSE]>>], [question |-> "What is a list?", options |-> <<[text |-> "Option A", is_correct |-> FALSE], [text |-> "Option B", is_correct |-> FALSE], [text |-> "Option C", is_correct |-> FALSE], [text |-> "Option D", is_correct |-> TRUE]>>]>>]) @@
    (TwoOptions :> [questions |-> <<[question |-> "What is a loop?", options |-> <<[text |-> "Option A", is_correct |-> TRUE], [text |-> "Option B", is_correct |-> TRUE]>>]>>]) @@
    (NoQuestions :> [questions |-> <<>>]) @@
    (OneModule :> [modules |-> <<[title |-> "Basics", description |-> "First steps", order |-> 1, lessons |-> <<[title |-> "Start", content |-> "Outline", order |-> 1]>>]>>])

Prose == "Here is what I found:"

ResponseTexts ==
    {<<>>, <<Prose, "\n">>,
     <<OneQuestion>>, <<TwoOptions>>, <<NoQuestions>>, <<OneModule>>,
     <<Prose, "\n", TripleBacktick, "json", "\n", OneQuestion, "\n", TripleBacktick, "\n">>,
     <<TripleBacktick, "\n", TwoQuestions, "\n", TripleBacktick>>,
     <<TripleBacktick, "json", "\n", Prose, TripleBacktick>>}

(* What model.generate_content does with one request: it raises (an error  *)
(* of the provider, a timeout) or answers with a text.                     *)
Responses ==
    {[invoked |-> TRUE, raises |-> TRUE, text |-> <<>>]} \cup
    {[invoked |-> TRUE, raises |-> FALSE, text |-> t] : t \in ResponseTexts}

(* the provider was not asked *)
NotInvoked == [invoked |-> FALSE]

(* what a call can meet: nothing when the generator is unavailable *)
Provider == IF MODEL_AVAILABLE THEN Responses ELSE {NotInvoked}

(* the document inside the code fence of the response, if it has one *)
extract_json(response_text) ==
    IF Contains(response_text, FenceJson)
    THEN Strip(Split(Split(response_text, FenceJson)[2], Fence)[1])
    ELSE IF Contains(response_text, Fence)
    THEN Strip(Split(Split(response_text, Fence)[2], Fence)[1])
    ELSE Strip(response_text)

json_loads(json_text) ==
    IF Len(json_text) = 1 /\ json_text[1] \in DOMAIN Documents
    THEN [raises |-> FALSE, value |-> Documents[json_text[1]]]
    ELSE [raises |-> TRUE]

(* the try block of the quiz and of the course outline *)
ParsedDocument(response) ==
    IF response.raises THEN [raises |-> TRUE]
    ELSE json_loads(extract_json(response.text))

(* the try block of the summary and of the study notes *)
StrippedText(response) ==
    IF response.raises THEN [raises |-> TRUE]
    ELSE [raises |-> FALSE, value |-> [text |-> Strip(response.text)]]

(* an operation whose exceptions reach its caller *)
Uncaught(attempt, fallback) ==
    IF attempt.raises
    THEN [raised |-> TRUE, path |-> "none", artifact |-> [text |-> <<>>]]
    ELSE [raised |-> FALSE, path |-> "model", artifact |-> attempt.value]

(* try: ... except Exception: return the fallback *)
Caught(attempt, fallback) ==
    IF attempt.raises
    THEN [raised |-> FALSE, path |-> "fallback", artifact |-> fallback]
    ELSE [raised |-> FALSE, path |-> "model", artifact |-> attempt.value]

(* what a call hands back to its caller; repeats is the path the call    *)
(* before took when it was the same request, "no" otherwise              *)
Return(op, args, response, result) ==
    returned' = [op |-> op, args |-> args, response |-> response,
                 raised |-> result.raised, path |-> result.path,
                 artifact |-> result.artifact,
                 repeats |-> IF returned.op = op /\ returned.args = args
                             THEN returned.path ELSE "no"]

Unavailable(fallback) == [raised |-> FALSE, path |-> "fallback", artifact |-> fallback]

generate_quiz_from_content(content, num_questions, response) ==
    /\ IF ~MODEL_AVAILABLE
       THEN /\ Return("generate_quiz_from_content",
                      [content |-> content, num_questions |-> num_questions], NotInvoked,
                      Unavailable(generate_fallback_quiz(content, num_questions)))
            /\ UNCHANGED provider_calls
       ELSE /\ provider_calls' = provider_calls + 1
            /\ Return("generate_quiz_from_content",
                      [content |-> content, num_questions |-> num_questions], response,
                      Caught(ParsedDocument(response),
                             generate_fallback_quiz(content, num_questions)))
    /\ UNCHANGED <<environment, MODEL_AVAILABLE, MODEL, list_calls>>
    /\ UNCHANGED <<hierarchy, tracker, quizzes, flashed, inflight>>

summarize_content(content, response) ==
    /\ IF ~MODEL_AVAILABLE
       THEN /\ Return("summarize_content", [content |-> content], NotInvoked,
                      Unavailable(generate_fallback_summary(content)))
            /\ UNCHANGED provider_calls
       ELSE /\ provider_calls' = provider_calls + 1
            /\ Return("summarize_content", [content |-> content], response,
                      Caught(StrippedText(response), generate_fallback_summary(content)))
    /\ UNCHANGED <<environment, MODEL_AVAILABLE, MODEL, list_calls>>
    /\ UNCHANGED <<hierarchy, tracker, quizzes, flashed, inflight>>

generate_study_notes(content, response) ==
    /\ IF ~MODEL_AVAILABLE
       THEN /\ Return("generate_study_notes", [content |-> content], NotInvoked,
                      Unavailable(generate_fallback_study_notes(content)))
            /\ UNCHANGED provider_calls
       ELSE /\ provider_calls' = provider_calls + 1
            /\ Return("generate_study_notes", [content |-> content], response,
                      Caught(StrippedText(response), generate_fallback_study_notes(content)))
    /\ UNCHANGED <<environment, MODEL_AVAILABLE, MODEL, list_calls>>
    /\ UNCHANGED <<hierarchy, tracker, quizzes, flashed, inflight>>

generate_course_content(title, description, num_modules, response) ==
    /\ IF ~MODEL_AVAILABLE
       THEN /\ Return("generate_course_content",
                      [title |-> title, description |-> description,
                       num_modules |-> num_modules], NotInvoked,
                      Unavailable(generate_fallback_course_content(title, description,
                                                                   num_modules)))
            /\ UNCHANGED provider_calls
       ELSE /\ provider_calls' = provider_calls + 1
            /\ Return("generate_course_content",
                      [title |-> title, description |-> description,
                       num_modules |-> num_modules], response,
                      Caught(ParsedDocument(response),
                             generate_fallback_course_content(title, description,
                                                              num_modules)))
    /\ UNCHANGED <<environment, MODEL_AVAILABLE, MODEL, list_calls>>
    /\ UNCHANGED <<hierarchy, tracker, quizzes, flashed, inflight>>

-----------------------------------------------------------------------------
(* The store after construction: db.create_all() on an empty database.     *)

Init ==
    /\ course = {}
    /\ section = {}
    /\ lecture = {}
    /\ enrollment = {}
    /\ lecture_progress = {}
    /\ quiz = {}
    /\ quiz_question = {}
    /\ quiz_option = {}
    /\ quiz_attempt = {}
    /\ flashed = NoPercentage
    /\ NoProvider
    /\ inflight = {}

(* The instructor's requests on the hierarchy alone. *)
NextOrderOps ==
    \/ \E u \in Users : NewId(course) <= MaxCourses /\ create_course(u)
    \/ \E u \in Users, c \in CourseIds : publish_course(u, c)
    \/ \E u \in Users, n \in 0..MaxVideos : \E v \in [1..n -> {MinContent}] :
          /\ NewId(course) <= MaxCourses
          /\ NewId(section) - 1 + n <= MaxSections
          /\ NewId(lecture) - 1 + n <= MaxLectures
          /\ import_playlist(u, v)
    \/ \E u \in Users, c \in CourseIds : delete_course(u, c)
    \/ \E u \in Users, c \in CourseIds :
          NewId(section) <= MaxSections /\ create_section(u, c)
    \/ \E u \in Users, s \in SectionIds, len \in ContentLengths :
          NewId(lecture) <= MaxLectures /\ create_lecture(u, s, len)
    \/ \E u \in Users, s \in SectionIds : delete_section(u, s)
    \/ \E u \in Users, l \in LectureIds : delete_lecture(u, l)
    \/ \E u \in Users, c \in 0..MaxCourses : \E ids \in SeqsUpTo(SectionIds, MaxSections) :
          reorder_sections(u, c, ids)
    \/ \E u \in Users, s \in 0..MaxSections : \E ids \in SeqsUpTo(LectureIds, MaxLectures) :
          reorder_lectures(u, s, ids)

SpecOrder == Init /\ [][NextOrderOps]_vars

-----------------------------------------------------------------------------
(* A published course of instructor 1 with two sections of one lecture     *)
(* each, the second lecture without content, as create_course,             *)
(* publish_course, create_section and create_lecture leave it.             *)

InitCourse ==
    /\ course = {[id |-> 1, creator_id |-> 1, is_published |-> TRUE]}
    /\ section = {[id |-> 1, course_id |-> 1, order |-> 1],
                  [id |-> 2, course_id |-> 1, order |-> 2]}
    /\ lecture = {[id |-> 1, section_id |-> 1, order |-> 1, content |-> MinContent],
                  [id |-> 2, section_id |-> 2, order |-> 1, content |-> 0]}
    /\ enrollment = {}
    /\ lecture_progress = {}
    /\ quiz = {}
    /\ quiz_question = {}
    /\ quiz_option = {}
    /\ quiz_attempt = {}
    /\ flashed = NoPercentage
    /\ NoProvider
    /\ inflight = {}

(* Every question of a draft has MaxOptions options. *)
OptionFlags == [1..MaxOptions -> BOOLEAN]

Drafts == SeqsUpTo(OptionFlags, MaxQuestions)

Positions == {0}

AnswerIds == {NULL} \cup Ids(quiz_option) \cup {NewId(quiz_option)}

(* The requests of the users on the lectures and quizzes of the course.    *)
Next ==
    \/ \E u \in Users, c \in CourseIds : enroll_course(u, c)
    \/ \E u \in Users, l \in LectureIds :
          NewId(lecture_progress) <= MaxProgressRows /\ video_player(u, l)
    \/ \E u \in Users, l \in 0..MaxLectures, pos \in Positions, f \in CompletedFields :
          NewId(lecture_progress) <= MaxProgressRows /\ update_progress(u, l, pos, f)
    \/ \E u \in Users, l \in LectureIds, new \in BOOLEAN, d \in Drafts :
          /\ NewId({q \in quiz : q.lecture_id # l}) <= MaxQuizzes
          /\ NewId(quiz_question) - 1 + Len(d) <= MaxQuestionRows
          /\ generate_quiz_page(u, l, new, d)
    \/ \E u \in Users, q \in QuizIds : \E a \in [Ids(QuestionsOf(q)) -> AnswerIds] :
          NewId(quiz_attempt) <= MaxAttempts /\ submit_quiz(u, q, a)

Spec == InitCourse /\ [][Next]_vars

-----------------------------------------------------------------------------
(* A published course of instructor 1 with three sections, two lectures in *)
(* the first and one in the second, student 2 enrolled, and a quiz of one  *)
(* question generated for lectures 1 and 3.                                *)

InitCascade ==
    /\ course = {[id |-> 1, creator_id |-> 1, is_published |-> TRUE]}
    /\ section = {[id |-> 1, course_id |-> 1, order |-> 1],
                  [id |-> 2, course_id |-> 1, order |-> 2],
                  [id |-> 3, course_id |-> 1, order |-> 3]}
    /\ lecture = {[id |-> 1, section_id |-> 1, order |-> 1, content |-> MinContent],
                  [id |-> 2, section_id |-> 1, order |-> 2, content |-> MinContent],
                  [id |-> 3, section_id |-> 2, order |-> 1, content |-> MinContent]}
    /\ enrollment = {[user_id |-> 2, course_id |-> 1]}
    /\ lecture_progress = {}
    /\ quiz = {[id |-> 1, lecture_id |-> 1], [id |-> 2, lecture_id |-> 3]}
    /\ quiz_question = {[id |-> 1, quiz_id |-> 1], [id |-> 2, quiz_id |-> 2]}
    /\ quiz_option = {[id |-> 1, question_id |-> 1, is_correct |-> TRUE],
                      [id |-> 2, question_id |-> 2, is_correct |-> TRUE]}
    /\ quiz_attempt = {}
    /\ flashed = NoPercentage
    /\ NoProvider
    /\ inflight = {}

CascadeIds == 1..CascadeRows

(* The student's requests on the lectures and the instructor's requests on *)
(* the hierarchy under them.                                               *)
NextCascade ==
    \/ \E u \in Users, c \in CourseIds : enroll_course(u, c)
    \/ \E u \in Users \ Instructors, l \in CascadeIds :
          NewId(lecture_progress) <= MaxProgressRows /\ video_player(u, l)
    \/ \E u \in Users \ Instructors, l \in CascadeIds, f \in {"", "true"} :
          NewId(lecture_progress) <= MaxProgressRows /\ update_progress(u, l, 0, f)
    \/ \E u \in Users \ Instructors, q \in Ids(quiz) :
          \E a \in [Ids(QuestionsOf(q)) -> AnswerIds] :
             NewId(quiz_attempt) <= MaxAttempts /\ submit_quiz(u, q, a)
    \/ \E u \in Users, c \in CourseIds :
          NewId(section) <= CascadeRows /\ create_section(u, c)
    \/ \E u \in Users, s \in CascadeIds :
          NewId(lecture) <= CascadeRows /\ create_lecture(u, s, MinContent)
    \/ \E u \in Users, s \in CascadeIds : delete_section(u, s)
    \/ \E u \in Users, l \in CascadeIds : delete_lecture(u, l)

SpecCascade == InitCascade /\ [][NextCascade]_vars

-----------------------------------------------------------------------------
(* A published course of one section with any number of lectures up to     *)
(* MaxTotal, which the student enrolls in and completes lecture by         *)
(* lecture.                                                                *)

InitProgress ==
    \E total \in 0..MaxTotal :
        /\ course = {[id |-> 1, creator_id |-> 1, is_published |-> TRUE]}
        /\ section = {[id |-> 1, course_id |-> 1, order |-> 1]}
        /\ lecture = {[id |-> i, section_id |-> 1, order |-> i, content |-> MinContent]
                         : i \in 1..total}
        /\ enrollment = {}
        /\ lecture_progress = {}
        /\ quiz = {}
        /\ quiz_question = {}
        /\ quiz_option = {}
        /\ quiz_attempt = {}
        /\ flashed = NoPercentage
        /\ NoProvider
        /\ inflight = {}

NextProgress ==
    \/ \E u \in Users \ Instructors, c \in CourseIds : enroll_course(u, c)
    \/ \E u \in Users \ Instructors :
          /\ NewId(lecture_progress) <= MaxTotal
          /\ update_progress(u, NewId(lecture_progress), 0, "true")

SpecProgress == InitProgress /\ [][NextProgress]_vars

-----------------------------------------------------------------------------
(* Course progress.                                                        *)

(* The lectures of course c that have a completed LectureProgress of u. *)
CompletedLectures(c, u) ==
    {l \in LecturesOfCourse(c) :
        \E p \in lecture_progress : p.lecture_id = l.id /\ p.user_id = u /\ p.completed}

FloorProgress(c, u) ==
    LET total == Cardinality(LecturesOfCourse(c))
        done == Cardinality(CompletedLectures(c, u))
    IN IF ~IsEnrolled(u, c) THEN 0
       ELSE IF total = 0 THEN 0
       ELSE IF done = total THEN 100
       ELSE (100 * done) \div total

(* C6: get_progress is 0 without an enrollment, 0 for a course without     *)
(* lectures, 100 when every lecture is completed, and otherwise            *)
(* floor(100 * completed / total).                                         *)
ProgressIsFloor ==
    \A c \in course, u \in Users : get_progress(c.id, u) = FloorProgress(c.id, u)

-----------------------------------------------------------------------------
(* Ordering of siblings.                                                   *)

Dense(rows) == \A n \in 1..Cardinality(rows) : Cardinality({r \in rows : r.order = n}) = 1

(* C1: after any sequence of create, reorder, delete and import requests   *)
(* the order values of the sections of every course, and of the lectures   *)
(* of every section, are exactly 1..count, without gaps or duplicates.     *)
DenseOrder ==
    /\ \A c \in course : Dense(SectionsOf(c.id))
    /\ \A s \in section : Dense(LecturesOf(s.id))

SectionLists == SeqsUpTo(SectionIds, MaxSections)

LectureLists == SeqsUpTo(LectureIds, MaxLectures)

(* The ids of the list ids are all in scope and each listed row has the    *)
(* position of one of its occurrences as its new order.                    *)
OrderIsPosition(rows, ids) ==
    \A i \in Range(ids) : \E r \in rows : \E k \in 1..Len(ids) :
        r.id = i /\ ids[k] = i /\ r.order = k

(* C2: a reorder request whose list holds an id outside the scope changes  *)
(* no order value; a request whose ids all belong to the scope gives each  *)
(* listed row its 1-based position in the list.                            *)
ForeignIdRejected ==
    [][/\ \A u \in Users, c \in CourseIds, ids \in SectionLists :
            reorder_sections(u, c, ids) =>
                IF Range(ids) \subseteq Ids(SectionsOf(c))
                THEN OrderIsPosition(SectionsOf(c)', ids)
                ELSE UNCHANGED <<section, lecture>>
       /\ \A u \in Users, s \in SectionIds, ids \in LectureLists :
            reorder_lectures(u, s, ids) =>
                IF Range(ids) \subseteq Ids(LecturesOf(s))
                THEN OrderIsPosition(LecturesOf(s)', ids)
                ELSE UNCHANGED <<section, lecture>>]_vars

(* ids lists every member of rows exactly once *)
ListsEachOnce(rows, ids) ==
    /\ Len(ids) = Cardinality(rows)
    /\ Range(ids) = Ids(rows)

(* C3: a reorder request with a non-empty list that does not list every    *)
(* member of the scope exactly once changes no order value.                *)
PartialListRejected ==
    [][/\ \A u \in Users, c \in CourseIds, ids \in SectionLists :
            (reorder_sections(u, c, ids) /\ ~ListsEachOnce(SectionsOf(c), ids))
                => UNCHANGED <<section, lecture>>
       /\ \A u \in Users, s \in SectionIds, ids \in LectureLists :
            (reorder_lectures(u, s, ids) /\ ~ListsEachOnce(LecturesOf(s), ids))
                => UNCHANGED <<section, lecture>>]_vars

(* The order the claim gives to a child appended to rows. *)
AppendedOrder(rows) ==
    IF rows = {} THEN 1
    ELSE CHOOSE n \in {r.order + 1 : r \in rows} : \A r \in rows : r.order < n

(* C4: a section or lecture that is created gets the largest order of its  *)
(* scope plus one, and 1 in an empty scope.                                *)
AppendGetsNextOrder ==
    [][/\ \A u \in Users, c \in CourseIds :
            (create_section(u, c) /\ section' # section) =>
                \E r \in section' : /\ section' = section \cup {r}
                                    /\ r.course_id = c
                                    /\ r.order = AppendedOrder(SectionsOf(c))
       /\ \A u \in Users, s \in SectionIds, len \in ContentLengths :
            (create_lecture(u, s, len) /\ lecture' # lecture) =>
                \E r \in lecture' : /\ lecture' = lecture \cup {r}
                                    /\ r.section_id = s
                                    /\ r.order = AppendedOrder(LecturesOf(s))]_vars

(* A section holds two lectures, of orders 1 and 2: the first was appended *)
(* to the empty section and the second after it.                           *)
AppendedTwice ==
    \E s \in section : \E a, b \in LecturesOf(s.id) :
        a.id < b.id /\ a.order = 1 /\ b.order = 2

-----------------------------------------------------------------------------
(* Deletion.                                                               *)

(* The survivors of rows are before exactly the survivors and keep their   *)
(* relative order, numbered 1..count; nothing else of them changes.        *)
Closed(before, after) ==
    /\ Ids(after) = Ids(before)
    /\ Dense(after)
    /\ \A a \in before : \E b \in after :
          b.id = a.id /\ [b EXCEPT !.order = a.order] = a
    /\ \A a1, a2 \in before : \A b1, b2 \in after :
          (a1.id = b1.id /\ a2.id = b2.id /\ a1.order < a2.order) => b1.order < b2.order

(* Every row under the lectures lids is gone and every other row of the    *)
(* progress and quiz tables is as before.                                  *)
DescendantsGone(lids) ==
    LET qids == {q.id : q \in {q \in quiz : q.lecture_id \in lids}}
        xids == {x.id : x \in {x \in quiz_question : x.quiz_id \in qids}}
    IN /\ lecture_progress' = {p \in lecture_progress : p.lecture_id \notin lids}
       /\ quiz' = {q \in quiz : q.id \notin qids}
       /\ quiz_question' = {x \in quiz_question : x.id \notin xids}
       /\ quiz_option' = {o \in quiz_option : o.question_id \notin xids}
       /\ quiz_attempt' = {a \in quiz_attempt : a.quiz_id \notin qids}

(* C5: a successful delete_section removes the section, its lectures and   *)
(* every progress, quiz, question, option and attempt row under them,      *)
(* leaves the rows of other sections untouched and renumbers the surviving *)
(* sections of the course 1..count in their previous relative order; the   *)
(* same for delete_lecture within its section.                             *)
DeleteCascades ==
    [][/\ \A u \in Users, s \in CascadeIds :
            (delete_section(u, s) /\ section' # section) =>
                LET c == Get(section, s).course_id
                IN /\ DescendantsGone(Ids(LecturesOf(s)))
                   /\ lecture' = {l \in lecture : l.section_id # s}
                   /\ {r \in section' : r.course_id # c} = {r \in section : r.course_id # c}
                   /\ Closed({r \in section : r.course_id = c /\ r.id # s},
                             {r \in section' : r.course_id = c})
       /\ \A u \in Users, l \in CascadeIds :
            (delete_lecture(u, l) /\ lecture' # lecture) =>
                LET s == Get(lecture, l).section_id
                IN /\ DescendantsGone({l})
                   /\ section' = section
                   /\ {r \in lecture' : r.section_id # s} = {r \in lecture : r.section_id # s}
                   /\ Closed({r \in lecture : r.section_id = s /\ r.id # l},
                             {r \in lecture' : r.section_id = s})]_vars

(* The first of the three sections is deleted: the two others have orders  *)
(* 1 and 2, the quiz, question and option of lecture 1 are gone, and the   *)
(* progress, quiz and attempt of lecture 3 in the second section remain.   *)
FirstSectionDeleted ==
    /\ section = {[id |-> 2, course_id |-> 1, order |-> 1],
                  [id |-> 3, course_id |-> 1, order |-> 2]}
    /\ Ids(lecture) = {3}
    /\ quiz = {[id |-> 2, lecture_id |-> 3]}
    /\ quiz_question = {[id |-> 2, quiz_id |-> 2]}
    /\ Ids(quiz_option) = {2}
    /\ \E p \in lecture_progress : p.lecture_id = 3
    /\ \E a \in quiz_attempt : a.quiz_id = 2

(* C7: in every reachable state get_progress is an integer in 0..100 for   *)
(* every course and user.                                                  *)
ProgressInRange ==
    \A c \in course, u \in Users : get_progress(c.id, u) \in 0..100

(* A lecture of the course is deleted and the enrolled student has         *)
(* completed one of the two lectures that remain.                          *)
HalfAfterDelete ==
    /\ Cardinality(lecture) = 2
    /\ get_progress(1, 2) = 50

-----------------------------------------------------------------------------
(* Quiz attempts and completion.                                           *)

Answers(q) == [Ids(QuestionsOf(q)) -> AnswerIds]

(* tenths is score / total * 100 to one decimal place *)
IsPercentage(tenths, score, total) ==
    IF total = 0 THEN tenths = 0
    ELSE /\ 2 * (tenths * total - 1000 * score) <= total
         /\ 2 * (1000 * score - tenths * total) <= total

(* C8: the attempt that submit_quiz records for an enrolled user has the   *)
(* number of questions of the quiz as total_questions and, as score, the   *)
(* number of those questions whose submitted option is correct; a question *)
(* without a submitted option is in the total and not in the score; the    *)
(* percentage shown is score / total * 100, and 0 for a quiz without       *)
(* questions.                                                              *)
AttemptScored ==
    [][\A u \in Users, q \in QuizIds : \A a \in Answers(q) :
          (submit_quiz(u, q, a) /\ quiz_attempt' # quiz_attempt) =>
              \E t \in quiz_attempt' :
                  /\ quiz_attempt' = quiz_attempt \cup {t}
                  /\ t.user_id = u /\ t.quiz_id = q
                  /\ t.total_questions = Cardinality(QuestionsOf(q))
                  /\ t.score = Cardinality({x \in QuestionsOf(q) :
                                   \E o \in quiz_option :
                                       o.id = a[x.id] /\ o.is_correct})
                  /\ IsPercentage(flashed', t.score, t.total_questions)]_vars

(* An attempt at a quiz of two questions with one correct answer, shown as *)
(* 50.0%.                                                                  *)
HalfScored ==
    /\ \E t \in quiz_attempt : t.score = 1 /\ t.total_questions = 2
    /\ flashed = 500

(* C9: a submit_quiz of an enrolled user with a percentage of 70 or more   *)
(* leaves a completed LectureProgress of the user for the lecture of the   *)
(* quiz, whether or not the user had a row before; one below 70 leaves the *)
(* progress rows as they were.                                             *)
PassingCompletes ==
    [][\A u \in Users, q \in QuizIds : \A a \in Answers(q) :
          (submit_quiz(u, q, a) /\ quiz_attempt' # quiz_attempt) =>
              \E t \in quiz_attempt' \ quiz_attempt :
                  IF t.total_questions > 0 /\ 10 * t.score >= 7 * t.total_questions
                  THEN \E p \in lecture_progress' :
                           /\ p.user_id = u
                           /\ p.lecture_id = Get(quiz, q).lecture_id
                           /\ p.completed
                  ELSE lecture_progress' = lecture_progress]_vars

(* C10: a completed LectureProgress stays completed under every request,   *)
(* for as long as its lecture exists.                                      *)
CompletionStays ==
    [][\A p \in lecture_progress :
          (p.completed /\ Exists(lecture', p.lecture_id)) =>
              \E r \in lecture_progress' :
                  r.user_id = p.user_id /\ r.lecture_id = p.lecture_id /\ r.completed]_vars

-----------------------------------------------------------------------------
(* Progress reports on the seeded course.                                  *)

NextUpsert ==
    \/ \E u \in Users, c \in CourseIds : enroll_course(u, c)
    \/ \E u \in Users, l \in LectureIds :
          NewId(lecture_progress) <= MaxProgressRows /\ video_player(u, l)
    \/ \E u \in Users, l \in 0..MaxLectures, pos \in PositionFields,
            f \in CompletedFields :
          NewId(lecture_progress) <= MaxProgressRows /\ update_progress(u, l, pos, f)

SpecUpsert == InitCourse /\ [][NextUpsert]_vars

(* The value a completed field of that text supplies. *)
SuppliedFlag(field) == field = "true"

-----------------------------------------------------------------------------
(* The generation service on its own: the module is imported in some       *)
(* environment and the four operations are called.                         *)

MaxCalls == 2

MaxModules == 2

QuestionCounts == {1, 5}

ModuleCounts == (0 - 1)..MaxModules

Contents ==
    {<<>>,
     <<"P", "y", "t", "h", "o", "n">>,
     <<"w", "e", "b", " ", "P", "Y", "T", "H", "O", "N">>,
     <<"J", "a", "v", "a", "S", "c", "r", "i", "p", "t">>,
     <<"c", "o", "b", "w", "e", "b">>}

Titles == {"Algebra", "Python Basics"}

Descriptions == {"An introduction."}

InitService ==
    /\ course = {}
    /\ section = {}
    /\ lecture = {}
    /\ enrollment = {}
    /\ lecture_progress = {}
    /\ quiz = {}
    /\ quiz_question = {}
    /\ quiz_option = {}
    /\ quiz_attempt = {}
    /\ flashed = NoPercentage
    /\ \E env \in Environments : Imported(env)
    /\ inflight = {}

NextService ==
    \/ \E c \in Contents, n \in QuestionCounts, r \in Provider :
          provider_calls < MaxCalls /\ generate_quiz_from_content(c, n, r)
    \/ \E c \in Contents, r \in Provider :
          provider_calls < MaxCalls /\ summarize_content(c, r)
    \/ \E c \in Contents, r \in Provider :
          provider_calls < MaxCalls /\ generate_study_notes(c, r)
    \/ \E t \in Titles, d \in Descriptions, n \in ModuleCounts, r \in Provider :
          provider_calls < MaxCalls /\ generate_course_content(t, d, n, r)

SpecService == InitService /\ [][NextService]_vars

(* the fallback artifact of the operation op for the arguments args *)
FallbackOf(op, args) ==
    CASE op = "generate_quiz_from_content" ->
            generate_fallback_quiz(args.content, args.num_questions)
      [] op = "summarize_content" -> generate_fallback_summary(args.content)
      [] op = "generate_study_notes" -> generate_fallback_study_notes(args.content)
      [] op = "generate_course_content" ->
            generate_fallback_course_content(args.title, args.description,
                                             args.num_modules)

Structured == {"generate_quiz_from_content", "generate_course_content"}

(* the call met an exception inside: the provider raised, or the document *)
(* of a quiz or of a course outline could not be parsed                   *)
InternalFailure(call) ==
    /\ call.response.invoked
    /\ \/ call.response.raises
       \/ call.op \in Structured /\ json_loads(extract_json(call.response.text)).raises

(* C12: whatever the input and whatever the provider does, each of the     *)
(* four generation operations returns an artifact and raises nothing to    *)
(* its caller; a call that failed inside returns the fallback artifact of  *)
(* its operation.                                                          *)
NeverRaises ==
    returned.op # "none" =>
        /\ ~returned.raised
        /\ returned.path \in {"model", "fallback"}
        /\ InternalFailure(returned) =>
              /\ returned.path = "fallback"
              /\ returned.artifact = FallbackOf(returned.op, returned.args)

ProviderRaised ==
    /\ returned.op = "generate_course_content"
    /\ returned.response.invoked
    /\ returned.response.raises
    /\ returned.path = "fallback"

(* the import found no credential, could not list, or was listed nothing usable *)
Unconfigured(env) ==
    \/ ~env.genai
    \/ env.api_key \in {"None", "your_new_api_key_here"}
    \/ env.listing.raises
    \/ \A i \in 1..Len(env.listing.names) : ~Usable(env.listing.names[i])

(* C13: when the import finds no valid credential (no key, the placeholder *)
(* key, no client library), cannot list the models or is listed no usable  *)
(* model, the generator is unavailable and stays so: every call returns    *)
(* the fallback artifact, the provider is never invoked and the models are *)
(* never listed again.                                                     *)
StaysUnavailable ==
    [][Unconfigured(environment) =>
          /\ ~MODEL_AVAILABLE
          /\ ~MODEL_AVAILABLE'
          /\ provider_calls' = provider_calls
          /\ list_calls' = list_calls
          /\ returned'.response = NotInvoked
          /\ returned'.path = "fallback"
          /\ returned'.artifact = FallbackOf(returned'.op, returned'.args)]_vars

NothingUsableListed ==
    /\ Credential(environment)
    /\ environment.listing = [raises |-> FALSE, names |-> <<Embedding, Pro10>>]
    /\ returned.op = "generate_quiz_from_content"
    /\ returned.repeats = "fallback"

(* the provider failed, or answered with no text, or with a document that *)
(* cannot be parsed                                                       *)
Failed(call) ==
    \/ InternalFailure(call)
    \/ call.response.invoked /\ Strip(call.response.text) = <<>>

(* C14: an available generator invokes the provider at most once for a     *)
(* request, and when that call fails, answers with empty text or (quiz,    *)
(* course outline) with a document that is not JSON, the operation returns *)
(* the whole fallback artifact of the operation.                           *)
FailureFallsBack ==
    [][MODEL_AVAILABLE =>
          /\ provider_calls' <= provider_calls + 1
          /\ Failed(returned') =>
                /\ returned'.path = "fallback"
                /\ returned'.artifact = FallbackOf(returned'.op, returned'.args)]_vars

OneCorrect(options) ==
    Cardinality({i \in 1..Len(options) : options[i].is_correct}) = 1

(* the document is a quiz of n questions with 4 options each, one correct *)
WellFormed(document, n) ==
    /\ "questions" \in DOMAIN document
    /\ Len(document.questions) = n
    /\ \A i \in 1..Len(document.questions) :
          /\ Len(document.questions[i].options) = 4
          /\ OneCorrect(document.questions[i].options)

(* C15: a quiz that generate_quiz_from_content(content, N) returns from    *)
(* the model has exactly N questions, each with exactly 4 options of which *)
(* exactly one is correct; a parsed response without the keys or with      *)
(* other counts is never returned.                                         *)
ModelQuizWellFormed ==
    (returned.op = "generate_quiz_from_content" /\ returned.path = "model") =>
        WellFormed(returned.artifact, returned.args.num_questions)

(* C16: the fallback quiz does not depend on the count asked for: for the  *)
(* content of the call, every count gives the quiz that was returned, and  *)
(* each of its questions has exactly 4 options of which exactly one is     *)
(* correct.                                                                *)
FallbackIgnoresCount ==
    (returned.op = "generate_quiz_from_content" /\ returned.path = "fallback") =>
        /\ \A n \in QuestionCounts :
              generate_fallback_quiz(returned.args.content, n) = returned.artifact
        /\ \A i \in 1..Len(returned.artifact.questions) :
              /\ Len(returned.artifact.questions[i].options) = 4
              /\ OneCorrect(returned.artifact.questions[i].options)

OneAskedThreeGiven ==
    /\ returned.op = "generate_quiz_from_content"
    /\ returned.path = "fallback"
    /\ returned.args.num_questions = 1
    /\ Len(returned.artifact.questions) = 3

Word_python == <<"p", "y", "t", "h", "o", "n">>

Word_javascript == <<"j", "a", "v", "a", "s", "c", "r", "i", "p", "t">>

Word_web == <<"w", "e", "b">>

(* C17: the fallback quiz is chosen by the keywords in the lowercased      *)
(* content alone: the Python set (first question "What is Python's primary *)
(* programming paradigm?", correct option "Object-oriented programming")   *)
(* when it holds 'python', whatever else it holds; else the JavaScript/web *)
(* set when it holds 'javascript' or 'web'; else the generic set.          *)
FallbackByKeyword ==
    (returned.op = "generate_quiz_from_content" /\ returned.path = "fallback") =>
        LET text == Lower(returned.args.content)
        IN  /\ Contains(text, Word_python) =>
                  /\ returned.artifact = PythonQuiz
                  /\ returned.artifact.questions[1].question =
                        "What is Python's primary programming paradigm?"
                  /\ \E o \in Range(returned.artifact.questions[1].options) :
                        o.is_correct /\ o.text = "Object-oriented programming"
            /\ (~Contains(text, Word_python)
                  /\ (Contains(text, Word_javascript) \/ Contains(text, Word_web))) =>
                  returned.artifact = WebQuiz
            /\ (~Contains(text, Word_python) /\ ~Contains(text, Word_javascript)
                  /\ ~Contains(text, Word_web)) =>
                  returned.artifact = GenericQuiz

PythonBeforeWeb ==
    /\ returned.op = "generate_quiz_from_content"
    /\ returned.path = "fallback"
    /\ returned.args.content = <<"w", "e", "b", " ", "P", "Y", "T", "H", "O", "N">>
    /\ returned.artifact.questions[1].question =
          "What is Python's primary programming paradigm?"

(* C19: the fallback outline for n modules has exactly n modules, in order *)
(* 1..n (none when n <= 0), each with exactly 3 lessons in order 1..3; the *)
(* module and lesson titles are the numbered labels, whatever the title    *)
(* and the description of the course.                                      *)
OutlineNumbered ==
    (returned.op = "generate_course_content" /\ returned.path = "fallback") =>
        LET n == returned.args.num_modules
            modules == returned.artifact.modules
        IN  /\ Len(modules) = IF n <= 0 THEN 0 ELSE n
            /\ \A i \in 1..Len(modules) :
                  /\ modules[i].order = i
                  /\ modules[i].title = "Module " \o ToString(i)
                  /\ Len(modules[i].lessons) = 3
                  /\ \A j \in 1..3 :
                        /\ modules[i].lessons[j].order = j
                        /\ modules[i].lessons[j].title = "Lesson " \o ToString(j)
                  /\ \A t \in Titles, d \in Descriptions :
                        LET other == generate_fallback_course_content(t, d, n).modules[i]
                        IN  /\ other.title = modules[i].title
                            /\ \A j \in 1..3 :
                                  other.lessons[j].title = modules[i].lessons[j].title

TwoModules ==
    /\ returned.op = "generate_course_content"
    /\ returned.path = "fallback"
    /\ returned.args.num_modules = 2
    /\ Len(returned.artifact.modules) = 2

-----------------------------------------------------------------------------
(* The summary of longer contents.                                         *)

Repeat(ch, n) == [i \in 1..n |-> ch]

(* a sentence of 120 characters without its period *)
Sentence120 == Repeat("a", 120)

(* three sentences, two periods, 252 characters *)
ThreeSentences == Repeat("a", 100) \o <<".">> \o Repeat("b", 100) \o <<".">> \o Repeat("c", 50)

(* four short sentences, the last without its period *)
FourSentences ==
    <<"O", "n", "e", ".", " ", "T", "w", "o", ".", " ", "S", "i", "x", ".", " ", "T", "e", "n">>

(* one sentence of 250 characters *)
Sentence250 == Repeat("a", 250)

Tagged ==
    <<"<", "h", "1", ">", "H", "i", "<", "/", "h", "1", ">",
      "<", "p", ">", "G", "o", ".", "<", "/", "p", ">">>

Articles == {<<>>, Sentence120, ThreeSentences, FourSentences, Sentence250, Tagged}

NextSummary ==
    \E c \in Articles, r \in Provider :
        provider_calls < MaxCalls /\ summarize_content(c, r)

SpecSummary == InitService /\ [][NextSummary]_vars

(* C18: the summary fallback extracts the first three sentences (split on  *)
(* the period) when the content has at least three sentences, otherwise    *)
(* its first 200 characters (the whole content when it has no more); the   *)
(* extract has its markup rewritten and stands between the fixed opening   *)
(* and the fixed note.                                                     *)
SummaryExtract ==
    (returned.op = "summarize_content" /\ returned.path = "fallback") =>
        LET content == returned.args.content
            sentences == Split(content, <<".">>)
            first == SubSeq(sentences, 1, SentenceLimit)
            extracts == IF Len(sentences) >= SentenceLimit
                        THEN {Join(first, <<".", " ">>) \o <<".">>,
                              Join(first, <<".">>) \o <<".">>,
                              Join(first, <<".">>)}
                        ELSE {Slice(content, ExtractLimit)}
        IN  \E extract \in extracts :
                returned.artifact.text =
                    <<SummaryHead>> \o Rewrite(extract, Len(Markup)) \o <<SummaryNote>>

(* C22: a request on the quiz of a lecture changes the store only when the *)
(* acting user is the creator of the course; for any other user, an        *)
(* enrolled student included, no course, section, lecture, quiz, question  *)
(* or option is created, changed or deleted.                               *)
OwnerOnlyMutates ==
    [][\A u \in Users, l \in LectureIds, new \in BOOLEAN, d \in Drafts :
          (generate_quiz_page(u, l, new, d) /\ Exists(lecture, l)
              /\ u # CourseOfLecture(l).creator_id) =>
              UNCHANGED <<hierarchy, quiz, quiz_question, quiz_option>>]_vars

(* C23: every option refers to an existing question, every question and    *)
(* attempt to an existing quiz, every lecture quiz and progress row to an  *)
(* existing lecture, every lecture to an existing section and every        *)
(* section and enrollment to an existing course.                           *)
NoOrphans ==
    /\ \A o \in quiz_option : Exists(quiz_question, o.question_id)
    /\ \A x \in quiz_question : Exists(quiz, x.quiz_id)
    /\ \A a \in quiz_attempt : Exists(quiz, a.quiz_id)
    /\ \A q \in quiz : Exists(lecture, q.lecture_id)
    /\ \A p \in lecture_progress : Exists(lecture, p.lecture_id)
    /\ \A l \in lecture : Exists(section, l.section_id)
    /\ \A t \in section : Exists(course, t.course_id)
    /\ \A e \in enrollment : Exists(course, e.course_id)

(* C27: at most one quiz row has the lecture_id of a lecture, and a        *)
(* request made while the lecture has a quiz and generate_new is false     *)
(* creates no quiz.                                                        *)
OneQuizPerLecture ==
    [][/\ \A l \in LectureIds : Cardinality({q \in quiz' : q.lecture_id = l}) <= 1
       /\ \A u \in Users, l \in LectureIds, d \in Drafts :
             (generate_quiz_page(u, l, FALSE, d) /\ \E q \in quiz : q.lecture_id = l) =>
                 UNCHANGED quiz]_vars

(* the quiz of lecture 1 stands in place of one that was deleted *)
QuizReplaced ==
    /\ \E q \in quiz : q.lecture_id = 1
    /\ \E x \in quiz_question : x.quiz_id = NULL

(* C29: the score that submit_quiz records is at most the number of        *)
(* questions of the quiz answered with a correct option of their own: an   *)
(* option of another question or of another quiz adds nothing.             *)
OwnOptionsScore ==
    [][\A u \in Users, q \in QuizIds : \A a \in Answers(q) :
          (submit_quiz(u, q, a) /\ quiz_attempt' # quiz_attempt) =>
              \A t \in quiz_attempt' \ quiz_attempt :
                  t.score <= Cardinality({x \in QuestionsOf(q) :
                                 \E o \in quiz_option :
                                     /\ o.id = a[x.id]
                                     /\ o.question_id = x.id
                                     /\ o.is_correct})]_vars

-----------------------------------------------------------------------------
(* The deletes of the instructor, each of which may raise part-way.        *)

NextRollback ==
    \/ \E u \in Users \ Instructors, l \in CascadeIds :
          NewId(lecture_progress) <= MaxProgressRows /\ video_player(u, l)
    \/ \E u \in Users, c \in CourseIds : delete_course(u, c)
    \/ \E u \in Users, s \in CascadeIds : delete_section(u, s)
    \/ \E u \in Users, l \in CascadeIds : delete_lecture(u, l)
    \/ \E u \in Users, c \in CourseIds, lids \in SUBSET CascadeIds :
          delete_course_except(u, c, lids)
    \/ \E u \in Users, s \in CascadeIds, lids \in SUBSET CascadeIds :
          delete_section_except(u, s, lids)
    \/ \E u \in Users, l \in CascadeIds, lids \in SUBSET CascadeIds :
          delete_lecture_except(u, l, lids)

SpecRollback == InitCascade /\ [][NextRollback]_vars

(* C24: a delete_course, delete_section or delete_lecture in which a step  *)
(* raises leaves every course, section, lecture, quiz, question, option,   *)
(* progress, attempt and enrollment row, order values included, as it was  *)
(* before the request.                                                     *)
DeleteRollsBack ==
    [][\A u \in Users, i \in CascadeIds, lids \in SUBSET CascadeIds :
          (\/ delete_course_except(u, i, lids)
           \/ delete_section_except(u, i, lids)
           \/ delete_lecture_except(u, i, lids)) =>
              UNCHANGED <<hierarchy, tracker, quizzes>>]_vars

(* a delete raised and the three lectures with their two quizzes are there *)
RaisedAndIntact ==
    /\ flashed = DeleteFailed
    /\ Cardinality(lecture) = 3
    /\ Cardinality(quiz) = 2
    /\ Cardinality(quiz_option) = 2

-----------------------------------------------------------------------------
(* Requests on the progress rows served at the same time: each runs its    *)
(* query and its commit as two steps, in any order with the others.        *)

MaxInflight == 2

NextRace ==
    \/ \E u \in Users, c \in CourseIds : enroll_course(u, c)
    \/ \E u \in Users, l \in LectureIds :
          Cardinality(inflight) < MaxInflight /\ video_player_query(u, l)
    \/ \E u \in Users, l \in 0..MaxLectures, f \in CompletedFields :
          Cardinality(inflight) < MaxInflight /\ update_progress_query(u, l, 0, f)
    \/ \E request \in inflight :
          NewId(lecture_progress) <= MaxProgressRows /\ video_player_commit(request)
    \/ \E request \in inflight :
          NewId(lecture_progress) <= MaxProgressRows /\ update_progress_commit(request)

SpecRace == InitCourse /\ [][NextRace]_vars

(* C28: at most one LectureProgress row exists for a user and a lecture,   *)
(* also when two requests of the user for the lecture run their            *)
(* get-or-create steps one inside the other.                               *)
OneRowPerPair ==
    \A u \in Users, l \in LectureIds :
        Cardinality({p \in lecture_progress : p.user_id = u /\ p.lecture_id = l}) <= 1

-----------------------------------------------------------------------------
(* generate_quiz_page with the document the generation service hands it:   *)
(* the content of a lecture is its text, and the rows of a quiz carry the  *)
(* texts of its questions and options.                                     *)

(* flashed after 'Not enough content to generate a quiz.' *)
ContentShort == -3

(* flashed after the error text of the document *)
QuizError == -4

(* flashed after 'An error occurred while generating the quiz.' *)
QuizFailed == -5

(* flashed after 'Quiz generated successfully!' *)
QuizGenerated == -6

(* flashed after 'Error importing playlist' *)
ImportFailed == -7

(* key in d, for a dict d *)
HasKey(d, key) == key \in DOMAIN d

MinOf(S) == CHOOSE m \in S : \A x \in S : m <= x

(* QuizOption(option_text=opt_data['text'], is_correct=opt_data['is_correct']) *)
(* raises when a key is missing                                              *)
OptionRaises(opt_data) == ~HasKey(opt_data, "text") \/ ~HasKey(opt_data, "is_correct")

(* the options of q_data the inner loop adds before it raises or ends *)
AddedOptions(q_data) ==
    IF ~HasKey(q_data, "question") \/ ~HasKey(q_data, "options") THEN <<>>
    ELSE LET raising == {i \in 1..Len(q_data.options) : OptionRaises(q_data.options[i])}
         IN  IF raising = {} THEN q_data.options
             ELSE SubSeq(q_data.options, 1, MinOf(raising) - 1)

QuestionRaises(q_data) ==
    \/ ~HasKey(q_data, "question")
    \/ ~HasKey(q_data, "options")
    \/ \E i \in 1..Len(q_data.options) : OptionRaises(q_data.options[i])

(* the questions the outer loop comes to, the one that raises being last *)
Reached(quiz_data) ==
    IF ~HasKey(quiz_data, "questions") THEN <<>>
    ELSE LET raising == {k \in 1..Len(quiz_data.questions) :
                            QuestionRaises(quiz_data.questions[k])}
         IN  IF raising = {} THEN quiz_data.questions
             ELSE SubSeq(quiz_data.questions, 1, MinOf(raising))

(* a loop that never meets a missing key *)
NoKeyError(quiz_data) == FALSE

(* the loops over quiz_data raise KeyError *)
PersistRaises(quiz_data) ==
    \/ ~HasKey(quiz_data, "questions")
    \/ \E k \in 1..Len(quiz_data.questions) : QuestionRaises(quiz_data.questions[k])

RECURSIVE AddedBefore(_, _)
AddedBefore(questions, k) ==
    IF k = 1 THEN 0
    ELSE AddedBefore(questions, k - 1) + Len(AddedOptions(questions[k - 1]))

(* the QuizQuestion rows added and flushed for quiz qid, ids after x0 *)
QuestionRows(quiz_data, qid, x0) ==
    LET reached == Reached(quiz_data)
    IN  {[id |-> x0 + k, quiz_id |-> qid, question |-> reached[k].question]
         : k \in {j \in 1..Len(reached) : HasKey(reached[j], "question")}}

(* the QuizOption rows added, ids after o0 in the order they were added *)
OptionRows(quiz_data, x0, o0) ==
    LET reached == Reached(quiz_data)
    IN  UNION {{[id |-> o0 + AddedBefore(reached, k) + i,
                 question_id |-> x0 + k,
                 option_text |-> AddedOptions(reached[k])[i].text,
                 is_correct |-> AddedOptions(reached[k])[i].is_correct]
                : i \in 1..Len(AddedOptions(reached[k]))}
               : k \in 1..Len(reached)}

(* a session whose flushed rows stay when the work raises *)
Flushed(raised, committed, pending) == pending

(* try: add, flush, commit; except Exception: db.session.rollback() *)
Persisted(raised, committed, pending) ==
    IF raised THEN Rollback(committed, pending) ELSE pending

(* the call of generate_quiz_from_content inside a handler *)
QuizData(content, num_questions, response) ==
    IF MODEL_AVAILABLE
    THEN Caught(ParsedDocument(response), generate_fallback_quiz(content, num_questions))
    ELSE Unavailable(generate_fallback_quiz(content, num_questions))

(* POST of a valid QuizGeneratorForm.  response: what the provider does    *)
(* when it is asked; commit_raises: the database refuses the commit.      *)
generate_quiz_page_post(u, l, generate_new, num_questions, response, commit_raises) ==
    IF ~Exists(lecture, l) THEN UNCHANGED vars
    ELSE IF ~(IsEnrolled(u, CourseOfLecture(l).id) \/ u = CourseOfLecture(l).creator_id)
    THEN UNCHANGED vars
    ELSE \E old \in (IF QuizOfLecture(l) = {} THEN {NoQuiz} ELSE QuizOfLecture(l)) :
         LET deleting == old # NoQuiz /\ generate_new
             quiz1 == IF deleting THEN quiz \ {old} ELSE quiz
             question1 == IF deleting THEN WithoutQuiz(quiz_question, old.id)
                          ELSE quiz_question
             attempt1 == IF deleting THEN WithoutQuiz(quiz_attempt, old.id)
                         ELSE quiz_attempt
             content == Get(lecture, l).content
             result == QuizData(content, num_questions, response)
             quiz_data == result.artifact
             qid == NewId(quiz1)
             x0 == NewId(question1) - 1
             o0 == NewId(quiz_option) - 1
             raised == PersistRaises(quiz_data) \/ commit_raises
         IN IF old # NoQuiz /\ ~generate_new THEN UNCHANGED vars
            ELSE IF Len(content) < MinContent
            THEN /\ quiz' = quiz1
                 /\ quiz_question' = question1
                 /\ quiz_attempt' = attempt1
                 /\ flashed' = ContentShort
                 /\ UNCHANGED <<hierarchy, tracker, quiz_option, ai, inflight>>
            ELSE /\ Return("generate_quiz_from_content",
                           [content |-> content, num_questions |-> num_questions],
                           IF MODEL_AVAILABLE THEN response ELSE NotInvoked, result)
                 /\ provider_calls' = IF MODEL_AVAILABLE THEN provider_calls + 1
                                      ELSE provider_calls
                 /\ UNCHANGED <<environment, MODEL_AVAILABLE, MODEL, list_calls>>
                 /\ quiz_attempt' = attempt1
                 /\ UNCHANGED <<hierarchy, tracker, inflight>>
                 /\ IF HasKey(quiz_data, "error")
                    THEN /\ quiz' = quiz1
                         /\ quiz_question' = question1
                         /\ UNCHANGED quiz_option
                         /\ flashed' = QuizError
                    ELSE /\ quiz' = Persisted(raised, quiz1,
                                        quiz1 \cup {[id |-> qid, lecture_id |-> l]})
                         /\ quiz_question' = Persisted(raised, question1,
                                        question1 \cup QuestionRows(quiz_data, qid, x0))
                         /\ quiz_option' = Persisted(raised, quiz_option,
                                        quiz_option \cup OptionRows(quiz_data, x0, o0))
                         /\ flashed' = IF raised THEN QuizFailed ELSE QuizGenerated

(* a read that gives the row stored last first *)
RECURSIVE LatestFirst(_)
LatestFirst(rows) ==
    IF rows = {} THEN <<>>
    ELSE LET last == CHOOSE r \in rows : \A o \in rows : o.id <= r.id
         IN  <<last>> \o LatestFirst(rows \ {last})

(* query.filter_by(...).all() without an order_by: SQLite walks the table  *)
(* by rowid, so the rows come in the order of their ids                    *)
RECURSIVE InIdOrder(_)
InIdOrder(rows) ==
    IF rows = {} THEN <<>>
    ELSE LET first == CHOOSE r \in rows : \A o \in rows : r.id <= o.id
         IN  <<first>> \o InIdOrder(rows \ {first})

(* The questions and options the page of quiz q is rendered with, read     *)
(* from the tables questions and options.                                  *)
ReadBack(questions, options, q) ==
    LET read == InIdOrder({x \in questions : x.quiz_id = q})
        OptionsRead(x) == InIdOrder({o \in options : o.question_id = x.id})
    IN  [k \in 1..Len(read) |->
            [question |-> read[k].question,
             options |-> [i \in 1..Len(OptionsRead(read[k])) |->
                             [text |-> OptionsRead(read[k])[i].option_text,
                              is_correct |-> OptionsRead(read[k])[i].is_correct]]]]

(* POST of a valid LectureForm by the owner: the lecture takes the content *)
(* of the form.                                                            *)
edit_lecture(u, l, content) ==
    IF Role(u) # "instructor" THEN UNCHANGED vars
    ELSE IF ~Exists(lecture, l) THEN UNCHANGED vars
    ELSE IF CourseOfLecture(l).creator_id # u THEN UNCHANGED vars
    ELSE /\ lecture' = {IF r.id = l THEN [r EXCEPT !.content = content] ELSE r
                        : r \in lecture}
         /\ UNCHANGED <<course, section, tracker, quizzes, flashed, ai, inflight>>

(* import_playlist when a step raises after the course and the sections of *)
(* the first k videos were added, at the lecture of video k (at_lecture)   *)
(* or after it: the except branch rolls the session back.                  *)
import_playlist_except(u, videos, k, at_lecture) ==
    IF Role(u) # "instructor"
    THEN UNCHANGED vars
    ELSE IF Len(videos) = 0
    THEN UNCHANGED vars
    ELSE LET c == NewId(course)
             s0 == NewId(section) - 1
             l0 == NewId(lecture) - 1
         IN /\ course' = Persisted(TRUE, course, course \cup
                   {[id |-> c, creator_id |-> u, is_published |-> FALSE]})
            /\ section' = Persisted(TRUE, section, section \cup
                   {[id |-> s0 + j, course_id |-> c, order |-> j] : j \in 1..k})
            /\ lecture' = Persisted(TRUE, lecture, lecture \cup
                   {[id |-> l0 + j, section_id |-> s0 + j, order |-> 1,
                     content |-> videos[j]]
                    : j \in 1..(IF at_lecture /\ k > 0 THEN k - 1 ELSE k)})
            /\ flashed' = ImportFailed
            /\ UNCHANGED <<tracker, quizzes, ai, inflight>>

(* a lecture on Python, 50 characters *)
PythonLesson == <<"P", "y", "t", "h", "o", "n">> \o Repeat("-", 44)

(* a note of three characters *)
WebNote == <<"w", "e", "b">>

(* a lecture without a keyword, 60 characters *)
PlainLesson == Repeat("a", 60)

LessonTexts == {PythonLesson, WebNote}

(* What the provider does with a quiz request. *)
QuizResponses ==
    {[invoked |-> TRUE, raises |-> TRUE, text |-> <<>>]} \cup
    {[invoked |-> TRUE, raises |-> FALSE, text |-> <<t>>]
     : t \in {OneQuestion, TwoOptions, FlagMissing, OneModule, ErrorDocument}}

QuizProvider == IF MODEL_AVAILABLE THEN QuizResponses ELSE {NotInvoked}

(* the rows of the question table before a request, at most *)
MaxStored == 3

(* A published course of instructor 1 with one section and one lecture on  *)
(* Python, student 2 enrolled, the generation service imported with or     *)
(* without a usable model.                                                 *)
InitQuiz ==
    /\ course = {[id |-> 1, creator_id |-> 1, is_published |-> TRUE]}
    /\ section = {[id |-> 1, course_id |-> 1, order |-> 1]}
    /\ lecture = {[id |-> 1, section_id |-> 1, order |-> 1, content |-> PythonLesson]}
    /\ enrollment = {[user_id |-> 2, course_id |-> 1]}
    /\ lecture_progress = {}
    /\ quiz = {}
    /\ quiz_question = {}
    /\ quiz_option = {}
    /\ quiz_attempt = {}
    /\ flashed = NoPercentage
    /\ \E env \in {Configured, [Configured EXCEPT !.genai = FALSE]} : Imported(env)
    /\ inflight = {}

NextQuiz ==
    \/ \E u \in Users, l \in LectureIds, new \in BOOLEAN, r \in QuizProvider,
          raises \in BOOLEAN :
          /\ NewId(quiz_question) <= MaxStored
          /\ provider_calls < MaxCalls
          /\ generate_quiz_page_post(u, l, new, 5, r, raises)
    \/ \E u \in Users, l \in LectureIds, t \in LessonTexts : edit_lecture(u, l, t)
    \/ \E u \in Users, l \in LectureIds : delete_lecture(u, l)
    \/ \E u \in Users, n \in 0..MaxVideos : \E v \in [1..n -> {PlainLesson}] :
          /\ NewId(course) <= MaxCourses
          /\ NewId(section) - 1 + n <= MaxSections
          /\ NewId(lecture) - 1 + n <= MaxLectures
          /\ import_playlist(u, v)
    \/ \E u \in Users, n \in 0..MaxVideos : \E v \in [1..n -> {PlainLesson}] :
          \E k \in 0..n, at_lecture \in BOOLEAN : import_playlist_except(u, v, k, at_lecture)

SpecQuiz == InitQuiz /\ [][NextQuiz]_vars

(* C26: every stored QuizQuestion has exactly one QuizOption with          *)
(* is_correct true, whether its quiz came from the fallback or from the    *)
(* document of the model.                                                  *)
StoredOneCorrect ==
    \A x \in quiz_question :
        Cardinality({o \in quiz_option : o.question_id = x.id /\ o.is_correct}) = 1

(* C30: a request with generate_new for a lecture that has a quiz either   *)
(* leaves a quiz on the lecture, or, when no replacement was created (the  *)
(* content is shorter than 50 characters, or persisting failed), leaves    *)
(* the previous quiz with its questions and options as they were.          *)
ReplaceKeepsQuiz ==
    [][\A u \in Users, l \in LectureIds, r \in QuizProvider,
          raises \in BOOLEAN :
          (generate_quiz_page_post(u, l, TRUE, 5, r, raises) /\ QuizOfLecture(l) # {}) =>
              \/ UNCHANGED <<quiz, quiz_question, quiz_option>>
              \/ \E q \in quiz' : q.lecture_id = l]_vars

(* the quiz q' of the store after the step holds every question of the     *)
(* draft, each with as many options as the draft gives it                  *)
Complete(q, draft) ==
    /\ HasKey(draft, "questions")
    /\ Cardinality({x \in quiz_question' : x.quiz_id = q.id}) = Len(draft.questions)
    /\ \A k \in 1..Len(draft.questions) :
          \E x \in quiz_question' :
              /\ x.quiz_id = q.id
              /\ x.question = draft.questions[k].question
              /\ Cardinality({o \in quiz_option' : o.question_id = x.id})
                     = Len(draft.questions[k].options)

(* the step added no quiz, question or option row *)
NoNewQuizRows ==
    /\ quiz' \subseteq quiz
    /\ Ids(quiz_question') \subseteq Ids(quiz_question)
    /\ quiz_option' \subseteq quiz_option

(* the step added one course with a section of one lecture per video *)
WholeCourse(videos) ==
    \E c \in course' \ course :
        /\ course' \ course = {c}
        /\ Cardinality(section' \ section) = Len(videos)
        /\ Cardinality(lecture' \ lecture) = Len(videos)
        /\ \A sec \in section' \ section :
              /\ sec.course_id = c.id
              /\ Cardinality({lec \in lecture' \ lecture : lec.section_id = sec.id}) = 1

(* C25: after a step that is a generate_quiz_page request (no other adds a *)
(* quiz row) either the quiz is there with every question and every option *)
(* of the draft the service returned to the request, or no new             *)
(* Quiz, QuizQuestion or QuizOption row exists (so when a key is missing   *)
(* in the draft or the commit is refused); an import_playlist request      *)
(* adds the course with a section and a lecture for every selected video,  *)
(* or no course, section or lecture at all.                                *)
PersistAllOrNothing ==
    [][/\ \/ NoNewQuizRows
          \/ \E q \in quiz' : Complete(q, returned'.artifact)
       /\ \A u \in Users, n \in 0..MaxVideos : \A v \in [1..n -> {PlainLesson}] :
             \A k \in 0..n, at_lecture \in BOOLEAN :
                 (import_playlist(u, v) \/ import_playlist_except(u, v, k, at_lecture)) =>
                     \/ UNCHANGED <<course, section, lecture>>
                     \/ WholeCourse(v)]_vars

(* the draft of the model lacked a key, the request failed and the store   *)
(* holds no quiz row of any kind                                           *)
DraftFailedNothingStored ==
    /\ flashed = QuizFailed
    /\ returned.path = "model"
    /\ returned.artifact = Documents[FlagMissing]
    /\ quiz = {}
    /\ quiz_question = {}
    /\ quiz_option = {}

(* C21: when a generate_quiz_page request has persisted the draft that     *)
(* generate_quiz_from_content returned to it, the questions read back for  *)
(* the quiz of the lecture are the questions of the draft in the same      *)
(* order with the same texts, each with the options of the draft in the    *)
(* same order with the same texts and is_correct flags.                    *)
RoundTrip ==
    [][\A u \in Users, l \in LectureIds, new \in BOOLEAN, r \in QuizProvider :
          (/\ flashed' = QuizGenerated
           /\ quiz_question' # quiz_question
           /\ generate_quiz_page_post(u, l, new, 5, r, FALSE)) =>
              \A q \in quiz' :
                  q.lecture_id = l =>
                      ReadBack(quiz_question', quiz_option', q.id)
                          = returned'.artifact.questions]_vars

(* the three questions of the fallback quiz on Python were persisted after *)
(* an earlier quiz and are read back as the draft gave them                *)
PythonQuizReadBack ==
    /\ flashed = QuizGenerated
    /\ returned.artifact = PythonQuiz
    /\ \E x \in quiz_question : x.quiz_id = NULL
    /\ \E q \in quiz : ReadBack(quiz_question, quiz_option, q.id) = PythonQuiz.questions

====
